---- MODULE Spec2Model ----
(***************************************************************************)
(* Render batch compositor of Source/Urho3D/RenderPipeline/                *)
(* BatchRenderer.cpp: DrawCommandCompositor (state cache, dirty flags,     *)
(* instancing group) driven by BatchRenderer::RenderBatches and            *)
(* BatchRenderer::RenderLightVolumeBatches.                                *)
(***************************************************************************)
EXTENDS Integers, Sequences, FiniteSets, TLC

VARIABLES
    pc,                 \* "idle" | "loop" (inside the for loop of a render call) | "done"
    call,               \* which entry point is running
    settings,           \* BatchRenderer::settings_
    enabled,            \* DrawCommandCompositor::enabled_
    outputShadowSplit,  \* DrawCommandCompositor::outputShadowSplit_
    globalResources,    \* DrawCommandCompositor::globalResources_
    batches,            \* the batches consumed so far, in order
    dirty,              \* DrawCommandCompositor::dirty_
    current,            \* DrawCommandCompositor::current_
    object,             \* DrawCommandCompositor::object_
    instancingGroup,    \* DrawCommandCompositor::instancingGroup_
    anyStateDirty,      \* dirty_.IsAnyStateDirty() as evaluated by the last ProcessBatch
    resetInstancingGroup, \* local of the last ProcessBatch
    beginInstancingGroup, \* local of the last ProcessBatch
    drawQueue,          \* commands emitted to DrawCommandQueue, in order
    instancingBuffer,   \* instances written to InstancingBufferCompositor, by slot
    queueOwner,         \* per command: index of the batch whose state change or direct
                        \* draw it is, 0 for the commands of DrawObjectInstanced
    instanceOwner,      \* per instance slot: index of the batch it was added for
    checked,            \* dirty_ as the last ProcessBatch found it at line 527, after
                        \* the CheckDirty* calls and before anything is committed
    cachedBefore,       \* current_ as the last ProcessBatch found it on entry
    previousCall,       \* <<>>, or <<the render call that returned before this one>>
    interleaved,        \* two compositors sharing the instancing buffer: may the loop of
                        \* one run between two batches of the other
    compositors,        \* the two compositors that share the instancing buffer
    slotCompositor,     \* per instance slot: the compositor that added it (0: the
                        \* compositor of the variables above)
    camera,             \* DrawCommandCompositor::camera_, the fields the constants read
    URHO3D_OPENGL,      \* is the build the OpenGL one (#ifdef URHO3D_OPENGL)
    cameraParameters,   \* the camera-derived shader constants computed so far
    useConstantBuffers, \* does the draw queue fill constant buffers, and so begin every
                        \* shader parameter group it is asked for
    disk,               \* the files of the file system behind Urho3D::File, by name
    files,              \* the Urho3D::File objects FileStreamOpen detached, in order
    stream,             \* the FileStream the caller hands to the gSystemFileIO functions
    fileCall            \* the last gSystemFileIO call: arguments, result, state before

\* The compositors sharing one instancing buffer, and whether they interleave
sharedVars == <<interleaved, compositors, slotCompositor>>

\* The camera of the pass, the build it is compiled for, and its constants
cameraVars == <<camera, URHO3D_OPENGL, cameraParameters>>

\* The file streams of Core/TheForgeInterfaces.cpp
fileVars == <<disk, files, stream, fileCall>>

vars == <<pc, call, settings, enabled, outputShadowSplit, globalResources, batches,
          dirty, current, object, instancingGroup, anyStateDirty, resetInstancingGroup,
          beginInstancingGroup, drawQueue, instancingBuffer, queueOwner, instanceOwner,
          checked, cachedBefore, previousCall, interleaved, compositors, slotCompositor,
          camera, URHO3D_OPENGL, cameraParameters, useConstantBuffers,
          disk, files, stream, fileCall>>

----------------------------------------------------------------------------
(* Bounds *)

\* Longest batch list handed to one render call.
MaxBatches == 3

\* Longest batch list handed to each of two consecutive render calls.
MaxCallBatches == 2

\* Longest batch list handed to each of two compositors sharing the instancing buffer.
MaxSharedBatches == 2

----------------------------------------------------------------------------
(* Values of the collaborators *)

\* nullptr
NULL == "null"

\* "no light" / unused vertex light slot sentinel
M_MAX_UNSIGNED == -1

\* Size of LightAccumulator::VertexLightContainer
MAX_VERTEX_LIGHTS == 4

\* PipelineState::GetDesc().constantDepthBias_
ConstantDepthBias(pipelineState) == IF pipelineState = "S2" THEN 1 ELSE 0

\* Geometry::GetIndexBuffer()
GetIndexBuffer(geometry) == IF geometry = "G3" THEN NULL ELSE "IB"

\* LightProcessor::GetShaderParams() of lights_[index]
GetShaderParams(index) ==
    IF index = 0
    THEN [light |-> 0, lightRamp |-> "Ramp0", lightShape |-> NULL, shadowMap |-> "Shadow0"]
    ELSE [light |-> index, lightRamp |-> NULL, lightShape |-> NULL, shadowMap |-> NULL]

\* default-constructed LightShaderParameters
nullVertexLight ==
    [light |-> M_MAX_UNSIGNED, lightRamp |-> NULL, lightShape |-> NULL, shadowMap |-> NULL]

\* LightAccumulator::VertexLightContainer holding the given indices, first slot first
VertexLightContainer(indices) == [i \in 0 .. MAX_VERTEX_LIGHTS - 1 |-> indices[i + 1]]

\* DrawableProcessor::GetGeometryLighting(drawableIndex)
GetGeometryLighting(drawableIndex) ==
    IF drawableIndex = 0
    THEN [vertexLights |-> VertexLightContainer(
              <<M_MAX_UNSIGNED, M_MAX_UNSIGNED, M_MAX_UNSIGNED, M_MAX_UNSIGNED>>),
          sphericalHarmonics |-> "SH0"]
    ELSE [vertexLights |-> VertexLightContainer(
              <<0, M_MAX_UNSIGNED, M_MAX_UNSIGNED, M_MAX_UNSIGNED>>),
          sphericalHarmonics |-> "SH1"]

\* Light::GetVolumeTransform(camera) of lights_[index]
GetVolumeTransform(index) == IF index = 0 THEN "Volume0" ELSE "Volume1"

\* Scene::GetLightmapTexture(index)
GetLightmapTexture(index) == IF index = 0 THEN "Lightmap0" ELSE NULL

GEOM_STATIC == "GEOM_STATIC"
GEOM_SKINNED == "GEOM_SKINNED"
GEOM_BILLBOARD == "GEOM_BILLBOARD"

\* A PipelineBatch with the SourceBatch it refers to.
MakeBatch(ps, mat, geom, type, light, drawable, world, lmso, lmi) ==
    [pipelineState |-> ps, material |-> mat, geometry |-> geom, geometryType |-> type,
     lightIndex |-> light, drawableIndex |-> drawable,
     sourceBatch |-> [geometryType |-> type, worldTransform |-> world,
                      numWorldTransforms |-> 1,
                      lightmapScaleOffset |-> lmso, lightmapIndex |-> lmi]]

BaseBatch == MakeBatch("S1", "M1", "G1", GEOM_STATIC, M_MAX_UNSIGNED, 0, "W1", NULL, 0)

\* The batches a batch list is drawn from: the base batch and batches that differ
\* from it in one input (pipeline state, material, geometry, geometry type, light,
\* drawable, lightmap record).
SceneBatches ==
    { BaseBatch,
      [BaseBatch EXCEPT !.pipelineState = "S2"],
      [BaseBatch EXCEPT !.material = "M2"],
      [BaseBatch EXCEPT !.geometry = "G2"],
      [BaseBatch EXCEPT !.geometry = "G3"],
      [BaseBatch EXCEPT !.geometryType = GEOM_SKINNED,
                        !.sourceBatch.geometryType = GEOM_SKINNED,
                        !.sourceBatch.worldTransform = "W3"],
      [BaseBatch EXCEPT !.lightIndex = 0],
      [BaseBatch EXCEPT !.lightIndex = 1],
      [BaseBatch EXCEPT !.drawableIndex = 1, !.sourceBatch.worldTransform = "W2"],
      [BaseBatch EXCEPT !.sourceBatch.lightmapScaleOffset = "LMSO1"] }

\* Light volume batches name a light.
LightVolumeBatches ==
    { [BaseBatch EXCEPT !.lightIndex = 0],
      [BaseBatch EXCEPT !.lightIndex = 1],
      [BaseBatch EXCEPT !.lightIndex = 1, !.pipelineState = "S2"],
      [BaseBatch EXCEPT !.lightIndex = 0, !.pipelineState = "S3"] }

\* BatchRenderFlags handed to RenderBatches.
MakeFlags(ambient, vertex, pixel, instancing) ==
    [AmbientLight |-> ambient, VertexLights |-> vertex, PixelLight |-> pixel,
     InstantiateStaticGeometry |-> instancing]

BatchRenderFlagSets ==
    { MakeFlags(FALSE, FALSE, FALSE, FALSE),
      MakeFlags(FALSE, FALSE, FALSE, TRUE),
      MakeFlags(FALSE, FALSE, TRUE, TRUE),
      MakeFlags(FALSE, TRUE, FALSE, TRUE),
      MakeFlags(TRUE, FALSE, FALSE, TRUE),
      MakeFlags(TRUE, TRUE, TRUE, TRUE) }

\* outputShadowSplit: no split, or <<index of the light the split belongs to>>
NoShadowSplit == <<>>

\* The (flags, outputShadowSplit) pairs RenderBatches is called with.
RenderPasses ==
    [flags : BatchRenderFlagSets, outputShadowSplit : {NoShadowSplit}]
    \cup { [flags |-> MakeFlags(FALSE, FALSE, FALSE, TRUE), outputShadowSplit |-> <<0>>] }

\* BatchRendererSettings
SettingsSet ==
    { [gammaCorrection |-> FALSE, ambientMode |-> "Flat"],
      [gammaCorrection |-> TRUE, ambientMode |-> "Directional"] }

\* Material::GetShaderParameters()
GetShaderParameters(material) == <<[name |-> "MatDiffColor", value |-> material]>>

\* Material::GetTextures()
GetTextures(material) ==
    IF material = "M1"
    THEN <<[unit |-> "TU_DIFFUSE", texture |-> "Diffuse1"],
           [unit |-> "TU_EMISSIVE", texture |-> "Emissive1"]>>
    ELSE <<[unit |-> "TU_DIFFUSE", texture |-> "Diffuse2"]>>

\* LightVolumeRenderContext::geometryBuffer_
GeometryBufferResources == <<[unit |-> "TU_ALBEDOBUFFER", texture |-> "GBuffer"]>>

----------------------------------------------------------------------------
(* Camera-derived shader constants.  A float is the integer number of        *)
(* FixedPoint-ths it holds; a quotient of two floats keeps both operands.    *)

\* Units per 1.0f
FixedPoint == 10000000

\* M_EPSILON of Math/MathDefs.h, 0.000001f
M_EPSILON == 10

\* M_LARGE_EPSILON of Math/MathDefs.h, 0.00005f
M_LARGE_EPSILON == 500

\* Min and Max of Math/MathDefs.h
Min(lhs, rhs) == IF lhs < rhs THEN lhs ELSE rhs
Max(lhs, rhs) == IF lhs > rhs THEN lhs ELSE rhs

\* lhs / rhs on floats
Div(lhs, rhs) == [dividend |-> lhs, divisor |-> rhs]

\* value * (1.0f - M_LARGE_EPSILON); exact on the multiples of 0.002 the cameras use
TimesOneMinusLargeEpsilon(value) == value - value \div (FixedPoint \div M_LARGE_EPSILON)

\* Vector4
Vector4(x, y, z, w) == [x |-> x, y |-> y, z |-> z, w |-> w]

\* Camera::GetFarClip and Camera::GetNearClip: 100, 50 and 1; 0.1 and 0.5
FarClips == {100 * FixedPoint, 50 * FixedPoint, FixedPoint}
NearClips == {FixedPoint \div 10, FixedPoint \div 2}

\* Camera::GetEffectiveFogStart: -10, 0, 0.002, 0.02, 1, 80, 100 and 200
EffectiveFogStarts ==
    {-10 * FixedPoint, 0, FixedPoint \div 500, FixedPoint \div 50, FixedPoint,
     80 * FixedPoint, 100 * FixedPoint, 200 * FixedPoint}

\* The cameras a pass is rendered from
Cameras ==
    [orthographic : BOOLEAN, nearClip : NearClips, farClip : FarClips,
     effectiveFogStart : EffectiveFogStarts]

\* The camera of the passes whose constants are not looked into
SceneCamera ==
    [orthographic |-> FALSE, nearClip |-> FixedPoint \div 10, farClip |-> 100 * FixedPoint,
     effectiveFogStart |-> 80 * FixedPoint]

\* No constant computed yet
NoCameraParameters == [depthMode |-> <<>>, depthReconstruct |-> <<>>, fogParams |-> <<>>]

\* GetCameraDepthModeParameter on the OpenGL build, whatever the build is
GetCameraDepthModeParameter_BackendIgnored(cam) ==
    IF cam.orthographic
    THEN Vector4(FixedPoint, 0, FixedPoint \div 2, FixedPoint \div 2)
    ELSE Vector4(0, 0, 0, Div(FixedPoint, cam.farClip))

GetCameraDepthModeParameter(cam) ==
    IF cam.orthographic
    THEN IF URHO3D_OPENGL
         THEN Vector4(FixedPoint, 0, FixedPoint \div 2, FixedPoint \div 2)
         ELSE Vector4(FixedPoint, 0, FixedPoint, 0)
    ELSE Vector4(0, 0, 0, Div(FixedPoint, cam.farClip))

GetCameraDepthReconstructParameter(cam) ==
    Vector4(Div(cam.farClip, cam.farClip - cam.nearClip),
            Div(-cam.nearClip, cam.farClip - cam.nearClip),
            IF cam.orthographic THEN FixedPoint ELSE 0,
            IF cam.orthographic THEN 0 ELSE FixedPoint)

\* The locals of GetFogParameter at its return statement
FogLocals(cam) ==
    LET farClip == cam.farClip
        fogStart0 == Min(cam.effectiveFogStart, farClip)
        fogEnd == Min(cam.effectiveFogStart, farClip)
        fogStart == IF fogStart0 >= TimesOneMinusLargeEpsilon(fogEnd)
                    THEN TimesOneMinusLargeEpsilon(fogEnd)
                    ELSE fogStart0
    IN  [farClip |-> farClip, fogStart |-> fogStart, fogEnd |-> fogEnd]

\* GetFogParameter with the fog range taken as it comes
GetFogParameter_RangeNotFloored(cam) ==
    LET l == FogLocals(cam)
    IN  Vector4(Div(l.fogEnd, l.farClip), Div(l.farClip, l.fogEnd - l.fogStart), 0, 0)

GetFogParameter(cam) ==
    LET l == FogLocals(cam)
        fogRange == Max(l.fogEnd - l.fogStart, M_EPSILON)
    IN  Vector4(Div(l.fogEnd, l.farClip), Div(l.farClip, fogRange), 0, 0)

----------------------------------------------------------------------------
(* The file streams of Core/TheForgeInterfaces.cpp (gSystemFileIO) *)

\* Most streams FileStreamOpen hands out in one run.
MaxFiles == 2

\* Longest file of the file system.
MaxFileSize == 3

\* FileMode of TheForge, a mask of bits: the set of the bits that are set
FM_READ == {"FM_READ"}
FM_WRITE == {"FM_WRITE"}
FM_APPEND == {"FM_APPEND"}
FM_BINARY == {"FM_BINARY"}
FM_READ_WRITE == FM_READ \cup FM_WRITE

\* mode & bits
And(mode, bits) == mode \cap bits

\* The modes a caller asks for
FileModes ==
    { {}, FM_READ, FM_WRITE, FM_READ_WRITE, FM_APPEND, FM_BINARY,
      FM_READ \cup FM_APPEND, FM_WRITE \cup FM_APPEND, FM_WRITE \cup FM_BINARY }

\* The file names a caller asks for, and the ones the file system refuses to open
FileNames == {"data.bin", "new.bin", "denied.bin"}
Unopenable == {"denied.bin"}

\* The byte counts a caller asks to write
ByteCounts == {1, 2}

\* The file system before the first call
InitialDisk ==
    [n \in FileNames |->
        IF n = "new.bin" THEN [exists |-> FALSE, data |-> <<>>]
        ELSE [exists |-> TRUE, data |-> <<"d", "d">>]]

\* A null Urho3D::File pointer; the others are positions in files
nullptr == 0

\* FileStream stream = {}
ClearedStream == [mMode |-> {}, mSize |-> 0, pIO |-> "nullptr", pFile |-> nullptr]

\* No gSystemFileIO call yet
NoFileCall ==
    [op |-> "none", fileName |-> "", mode |-> {}, byteCount |-> 0, accepted |-> 0,
     ok |-> FALSE, bytes |-> 0,
     before |-> [disk |-> InitialDisk, files |-> <<>>, stream |-> ClearedStream]]

\* The state before any file stream is opened
NoFileStream ==
    /\ disk = InitialDisk
    /\ files = <<>>
    /\ stream = ClearedStream
    /\ fileCall = NoFileCall

\* Urho3D::File::Open(fileName, mode): FILE_READ opens an existing file, FILE_WRITE
\* creates or truncates it, FILE_READWRITE opens it and creates it when missing
FileOpen(fs, fileName, urhoMode) ==
    IF fileName \in Unopenable \/ (urhoMode = "FILE_READ" /\ ~fs[fileName].exists)
    THEN [ok |-> FALSE, disk |-> fs]
    ELSE [ok |-> TRUE,
          disk |-> IF urhoMode = "FILE_WRITE" \/ ~fs[fileName].exists
                   THEN [fs EXCEPT ![fileName] = [exists |-> TRUE, data |-> <<>>]]
                   ELSE fs]

\* Urho3D::File::GetSize()
GetSize(fs, file) == Len(fs[file.name].data)

\* Urho3D::File::Write(data, size): nothing on a file opened FILE_READ; otherwise the
\* bytes the system accepts, at most size, go to the position, which moves past them
FileWrite(fs, file, size, accepted) ==
    IF file.mode = "FILE_READ"
    THEN [written |-> 0, disk |-> fs, file |-> file]
    ELSE LET n == IF accepted < size THEN accepted ELSE size
             old == fs[file.name].data
             data == SubSeq(old, 1, file.position) \o [i \in 1..n |-> "w"]
                     \o SubSeq(old, file.position + n + 1, Len(old))
         IN  [written |-> n,
              disk |-> [fs EXCEPT ![file.name].data = data],
              file |-> [file EXCEPT !.position = file.position + n]]

\* Urho3D::File::Close() followed by delete
CloseAndDelete(file) ==
    [file EXCEPT !.closed = file.closed + 1, !.deleted = file.deleted + 1]

\* The Urho3D::FileMode FileStreamOpen picks for a mode, "unknown" for its else branch
UrhoMode(mode) ==
    IF And(mode, FM_READ) # {} THEN "FILE_READ"
    ELSE IF And(mode, FM_WRITE) # {} THEN "FILE_WRITE"
    ELSE IF And(mode, FM_READ_WRITE) # {} THEN "FILE_READWRITE"
    ELSE "unknown"

\* FileStreamOpen with *pOut = {} moved to the top of the function
FileStreamOpen_ClearedFirst(io, fileName, mode) ==
    LET failed == [returned |-> FALSE, disk |-> io.disk, files |-> io.files,
                   stream |-> ClearedStream]
    IN  IF UrhoMode(mode) = "unknown"
        THEN failed
        ELSE LET opened == FileOpen(io.disk, fileName, UrhoMode(mode))
                 atStart == [name |-> fileName, mode |-> UrhoMode(mode), position |-> 0,
                             closed |-> 0, deleted |-> 0]
                 file == IF And(mode, FM_APPEND) # {}
                         THEN [atStart EXCEPT !.position = GetSize(opened.disk, atStart)]
                         ELSE atStart
             IN  IF ~opened.ok
                 THEN failed
                 ELSE [returned |-> TRUE,
                       disk |-> opened.disk,
                       files |-> Append(io.files, file),
                       stream |-> [mMode |-> mode,
                                   mSize |-> GetSize(opened.disk, file),
                                   pIO |-> "fileSystem",
                                   pFile |-> Len(io.files) + 1]]

\* FileStreamOpen(fileSystem, resourceDir, fileName, mode, pOut) on the state
\* io = [disk, files, stream]: the return value and the state it leaves. The File it
\* creates is counted in files once it is detached; on the two failure paths the
\* SharedPtr destroys it
FileStreamOpen(io, fileName, mode) ==
    LET failed == [returned |-> FALSE, disk |-> io.disk, files |-> io.files,
                   stream |-> io.stream]
    IN  IF UrhoMode(mode) = "unknown"
        THEN failed
        ELSE LET opened == FileOpen(io.disk, fileName, UrhoMode(mode))
                 atStart == [name |-> fileName, mode |-> UrhoMode(mode), position |-> 0,
                             closed |-> 0, deleted |-> 0]
                 file == IF And(mode, FM_APPEND) # {}
                         THEN [atStart EXCEPT !.position = GetSize(opened.disk, atStart)]
                         ELSE atStart
             IN  IF ~opened.ok
                 THEN failed
                 ELSE [returned |-> TRUE,
                       disk |-> opened.disk,
                       files |-> Append(io.files, file),
                       stream |-> [mMode |-> mode,
                                   mSize |-> GetSize(opened.disk, file),
                                   pIO |-> "fileSystem",
                                   pFile |-> Len(io.files) + 1]]

\* FileStreamClose(pFile): the File is closed and deleted, pFile->pFile is left as it was
FileStreamClose(io) ==
    IF io.stream.pFile # nullptr
    THEN [returned |-> TRUE, disk |-> io.disk,
          files |-> [io.files EXCEPT
                        ![io.stream.pFile] = CloseAndDelete(io.files[io.stream.pFile])],
          stream |-> io.stream]
    ELSE [returned |-> FALSE, disk |-> io.disk, files |-> io.files, stream |-> io.stream]

\* FileStreamWrite returning byteCount where the code returns bytesWritten
FileStreamWrite_RequestedCount(io, byteCount, accepted) ==
    IF And(io.stream.mMode, FM_WRITE \cup FM_APPEND) = {}
    THEN [returned |-> 0, disk |-> io.disk, files |-> io.files, stream |-> io.stream]
    ELSE LET written == FileWrite(io.disk, io.files[io.stream.pFile], byteCount, accepted)
         IN  [returned |-> byteCount,
              disk |-> written.disk,
              files |-> [io.files EXCEPT ![io.stream.pFile] = written.file],
              stream |-> io.stream]

\* FileStreamWrite(pFile, sourceBuffer, byteCount), the system accepting at most
\* accepted bytes
FileStreamWrite(io, byteCount, accepted) ==
    IF And(io.stream.mMode, FM_WRITE \cup FM_APPEND) = {}
    THEN [returned |-> 0, disk |-> io.disk, files |-> io.files, stream |-> io.stream]
    ELSE LET written == FileWrite(io.disk, io.files[io.stream.pFile], byteCount, accepted)
         IN  [returned |-> written.written,
              disk |-> written.disk,
              files |-> [io.files EXCEPT ![io.stream.pFile] = written.file],
              stream |-> io.stream]

----------------------------------------------------------------------------
(* Initial values of the compositor's members *)

DirtyStateFlags ==
    [pipelineState |-> FALSE, frameConstants |-> TRUE, cameraConstants |-> TRUE,
     pixelLightConstants |-> FALSE, pixelLightTextures |-> FALSE,
     vertexLightConstants |-> FALSE,
     lightmapConstants |-> FALSE, lightmapTextures |-> FALSE,
     material |-> FALSE, geometry |-> FALSE]

\* One Vector4 of vertexLightsData_: which light it was derived from and which of
\* the three vectors of the slot it is; "zero" is the value-initialized vector.
VertexLightVector(kind, light, part, gamma) ==
    [kind |-> kind, light |-> light, part |-> part, gamma |-> gamma]

ZeroVector == VertexLightVector("zero", 0, 0, FALSE)

CachedSharedState ==
    [pipelineState |-> NULL, constantDepthBias |-> 0,
     pixelLightIndex |-> M_MAX_UNSIGNED, pixelLightEnabled |-> FALSE,
     pixelLightParams |-> nullVertexLight,
     pixelLightRamp |-> NULL, pixelLightShape |-> NULL, pixelLightShadowMap |-> NULL,
     vertexLights |-> [i \in 0 .. MAX_VERTEX_LIGHTS - 1 |-> 0],
     vertexLightsData |-> [k \in 0 .. MAX_VERTEX_LIGHTS * 3 - 1 |-> ZeroVector],
     lightmapTexture |-> NULL, lightmapScaleOffset |-> NULL,
     material |-> NULL, geometry |-> NULL]

ObjectState ==
    [sh |-> NULL, ambient |-> [sh |-> NULL, space |-> "zero"],
     geometryType |-> GEOM_STATIC, worldTransform |-> NULL, numWorldTransforms |-> 0]

InstancingGroupState == [geometry |-> NULL, start |-> 0, count |-> 0]

EnabledFeatureFlags(flags) ==
    [ambientLighting |-> flags.AmbientLight,
     vertexLighting |-> flags.VertexLights,
     pixelLighting |-> flags.PixelLight,
     anyLighting |-> flags.AmbientLight \/ flags.VertexLights \/ flags.PixelLight,
     staticInstancing |-> flags.InstantiateStaticGeometry]

IsAnyStateDirty(d) ==
    \/ d.pipelineState \/ d.frameConstants \/ d.cameraConstants
    \/ d.pixelLightConstants \/ d.pixelLightTextures \/ d.vertexLightConstants
    \/ d.lightmapConstants \/ d.lightmapTextures \/ d.material \/ d.geometry

----------------------------------------------------------------------------
(* The collaborators the compositor writes to.  A compositor state c is the      *)
(* record of the members and of the two destinations.                            *)

Command(op, arg, data) == [op |-> op, arg |-> arg, data |-> data]

\* Append one command to the draw queue.
Emit(c, owner, command) ==
    [c EXCEPT !.drawQueue = Append(@, command), !.queueOwner = Append(@, owner)]

\* DrawCommandQueue::BeginShaderParameterGroup: the group is begun when the caller
\* says it differs from the previous one, and always by a queue that fills constant
\* buffers.
BeginShaderParameterGroup(group, differentFromPrevious) ==
    useConstantBuffers \/ differentFromPrevious

\* InstancingBufferCompositor::AddInstance: opens the next slot; the slot number
\* returned is the number of instances added before.
AddInstance(c) ==
    [c EXCEPT !.instancingBuffer = Append(@, [worldTransform |-> NULL, ambient |-> <<>>]),
              !.instanceOwner = Append(@, c.n)]

\* The slot AddInstance(c) returns.
AddInstanceResult(c) == Len(c.instancingBuffer)

\* InstancingBufferCompositor::SetElements on the slot opened last.
SetElements(c, field, value) ==
    [c EXCEPT !.instancingBuffer[Len(c.instancingBuffer)][field] = value]

----------------------------------------------------------------------------
(* DrawCommandCompositor: extract and process batch state, no change in the queue *)

\* CheckDirtyCommonState that never flags a geometry change
CheckDirtyCommonState_GeometryNeverDirty(c, pipelineBatch) ==
    LET constantDepthBias == ConstantDepthBias(pipelineBatch.pipelineState)
        biasDiffers == c.current.constantDepthBias # constantDepthBias
    IN [c EXCEPT
          !.dirty.pipelineState = c.current.pipelineState # pipelineBatch.pipelineState,
          !.current.pipelineState = pipelineBatch.pipelineState,
          !.current.constantDepthBias = constantDepthBias,
          !.dirty.cameraConstants = IF biasDiffers THEN TRUE ELSE @,
          !.dirty.material = c.current.material # pipelineBatch.material,
          !.current.material = pipelineBatch.material,
          !.dirty.geometry = FALSE,
          !.current.geometry = pipelineBatch.geometry]

\* CheckDirtyCommonState that compares the material with the batch's own
CheckDirtyCommonState_MaterialNeverDirty(c, pipelineBatch) ==
    LET constantDepthBias == ConstantDepthBias(pipelineBatch.pipelineState)
        biasDiffers == c.current.constantDepthBias # constantDepthBias
    IN [c EXCEPT
          !.dirty.pipelineState = c.current.pipelineState # pipelineBatch.pipelineState,
          !.current.pipelineState = pipelineBatch.pipelineState,
          !.current.constantDepthBias = constantDepthBias,
          !.dirty.cameraConstants = IF biasDiffers THEN TRUE ELSE @,
          !.dirty.material = pipelineBatch.material # pipelineBatch.material,
          !.current.material = pipelineBatch.material,
          !.dirty.geometry = c.current.geometry # pipelineBatch.geometry,
          !.current.geometry = pipelineBatch.geometry]

\* CheckDirtyCommonState that flags the camera constants on every pipeline state change
CheckDirtyCommonState_CameraDirtyOnStateChange(c, pipelineBatch) ==
    LET constantDepthBias == ConstantDepthBias(pipelineBatch.pipelineState)
        stateDiffers == c.current.pipelineState # pipelineBatch.pipelineState
    IN [c EXCEPT
          !.dirty.pipelineState = c.current.pipelineState # pipelineBatch.pipelineState,
          !.current.pipelineState = pipelineBatch.pipelineState,
          !.current.constantDepthBias = constantDepthBias,
          !.dirty.cameraConstants = IF stateDiffers THEN TRUE ELSE @,
          !.dirty.material = c.current.material # pipelineBatch.material,
          !.current.material = pipelineBatch.material,
          !.dirty.geometry = c.current.geometry # pipelineBatch.geometry,
          !.current.geometry = pipelineBatch.geometry]

\* CheckDirtyCommonState that flags the pipeline state on every batch
CheckDirtyCommonState_PipelineStateAlwaysDirty(c, pipelineBatch) ==
    LET constantDepthBias == ConstantDepthBias(pipelineBatch.pipelineState)
        biasDiffers == c.current.constantDepthBias # constantDepthBias
    IN [c EXCEPT
          !.dirty.pipelineState = TRUE,
          !.current.pipelineState = pipelineBatch.pipelineState,
          !.current.constantDepthBias = constantDepthBias,
          !.dirty.cameraConstants = IF biasDiffers THEN TRUE ELSE @,
          !.dirty.material = c.current.material # pipelineBatch.material,
          !.current.material = pipelineBatch.material,
          !.dirty.geometry = c.current.geometry # pipelineBatch.geometry,
          !.current.geometry = pipelineBatch.geometry]

\* CheckDirtyCommonState that takes a pipeline state for changed when the material is
CheckDirtyCommonState_PipelineStateByMaterial(c, pipelineBatch) ==
    LET constantDepthBias == ConstantDepthBias(pipelineBatch.pipelineState)
        biasDiffers == c.current.constantDepthBias # constantDepthBias
    IN [c EXCEPT
          !.dirty.pipelineState = c.current.material # pipelineBatch.material,
          !.current.pipelineState = pipelineBatch.pipelineState,
          !.current.constantDepthBias = constantDepthBias,
          !.dirty.cameraConstants = IF biasDiffers THEN TRUE ELSE @,
          !.dirty.material = c.current.material # pipelineBatch.material,
          !.current.material = pipelineBatch.material,
          !.dirty.geometry = c.current.geometry # pipelineBatch.geometry,
          !.current.geometry = pipelineBatch.geometry]

CheckDirtyCommonState(c, pipelineBatch) ==
    LET constantDepthBias == ConstantDepthBias(pipelineBatch.pipelineState)
        biasDiffers == c.current.constantDepthBias # constantDepthBias
    IN [c EXCEPT
          !.dirty.pipelineState = c.current.pipelineState # pipelineBatch.pipelineState,
          !.current.pipelineState = pipelineBatch.pipelineState,
          !.current.constantDepthBias = constantDepthBias,
          !.dirty.cameraConstants = IF biasDiffers THEN TRUE ELSE @,
          !.dirty.material = c.current.material # pipelineBatch.material,
          !.current.material = pipelineBatch.material,
          !.dirty.geometry = c.current.geometry # pipelineBatch.geometry,
          !.current.geometry = pipelineBatch.geometry]

\* CheckDirtyPixelLight that never takes over the light's textures
CheckDirtyPixelLight_TexturesNotCached(c, pipelineBatch) ==
    LET constantsDirty == c.current.pixelLightIndex # pipelineBatch.lightIndex
        pixelLightEnabled == pipelineBatch.lightIndex # M_MAX_UNSIGNED
        params == GetShaderParams(pipelineBatch.lightIndex)
        texturesDirty == \/ c.current.pixelLightRamp # params.lightRamp
                         \/ c.current.pixelLightShape # params.lightShape
                         \/ c.current.pixelLightShadowMap # params.shadowMap
        c1 == [c EXCEPT !.dirty.pixelLightConstants = constantsDirty]
        c2 == [c1 EXCEPT !.current.pixelLightIndex = pipelineBatch.lightIndex,
                         !.current.pixelLightEnabled = pixelLightEnabled]
        c3 == [c2 EXCEPT !.current.pixelLightParams = params,
                         !.dirty.pixelLightTextures = texturesDirty]
    IN IF ~constantsDirty THEN c1
       ELSE IF ~pixelLightEnabled THEN c2
       ELSE c3

CheckDirtyPixelLight(c, pipelineBatch) ==
    LET constantsDirty == c.current.pixelLightIndex # pipelineBatch.lightIndex
        pixelLightEnabled == pipelineBatch.lightIndex # M_MAX_UNSIGNED
        params == GetShaderParams(pipelineBatch.lightIndex)
        texturesDirty == \/ c.current.pixelLightRamp # params.lightRamp
                         \/ c.current.pixelLightShape # params.lightShape
                         \/ c.current.pixelLightShadowMap # params.shadowMap
        c1 == [c EXCEPT !.dirty.pixelLightConstants = constantsDirty]
        c2 == [c1 EXCEPT !.current.pixelLightIndex = pipelineBatch.lightIndex,
                         !.current.pixelLightEnabled = pixelLightEnabled]
        c3 == [c2 EXCEPT !.current.pixelLightParams = params,
                         !.dirty.pixelLightTextures = texturesDirty]
        c4 == [c3 EXCEPT !.current.pixelLightRamp = params.lightRamp,
                         !.current.pixelLightShape = params.lightShape,
                         !.current.pixelLightShadowMap = params.shadowMap]
    IN IF ~constantsDirty THEN c1
       ELSE IF ~pixelLightEnabled THEN c2
       ELSE IF ~texturesDirty THEN c3
       ELSE c4

\* The three vectors cached for vertex light slot i.
VertexLightSlotData(index, part) ==
    IF index # M_MAX_UNSIGNED
    THEN VertexLightVector("light", GetShaderParams(index).light, part,
                           settings.gammaCorrection)
    ELSE VertexLightVector("null", nullVertexLight.light, part, settings.gammaCorrection)

\* CheckDirtyVertexLight that compares the first slot only
CheckDirtyVertexLight_FirstSlotCompared(c, lightAccumulator) ==
    LET previousVertexLights == c.current.vertexLights
        c1 == [c EXCEPT !.current.vertexLights = lightAccumulator.vertexLights]
        constantsDirty == previousVertexLights[0] # c1.current.vertexLights[0]
        c2 == [c1 EXCEPT !.dirty.vertexLightConstants = constantsDirty]
    IN IF ~constantsDirty THEN c2
       ELSE [c2 EXCEPT !.current.vertexLightsData =
                [k \in 0 .. MAX_VERTEX_LIGHTS * 3 - 1 |->
                    VertexLightSlotData(c2.current.vertexLights[k \div 3], k % 3)]]

CheckDirtyVertexLight(c, lightAccumulator) ==
    LET previousVertexLights == c.current.vertexLights
        c1 == [c EXCEPT !.current.vertexLights = lightAccumulator.vertexLights]
        constantsDirty == previousVertexLights # c1.current.vertexLights
        c2 == [c1 EXCEPT !.dirty.vertexLightConstants = constantsDirty]
    IN IF ~constantsDirty THEN c2
       ELSE [c2 EXCEPT !.current.vertexLightsData =
                [k \in 0 .. MAX_VERTEX_LIGHTS * 3 - 1 |->
                    VertexLightSlotData(c2.current.vertexLights[k \div 3], k % 3)]]

\* CheckDirtyLightmap that sets the constants flag on a change and never clears it
CheckDirtyLightmap_ConstantsFlagKept(c, sourceBatch) ==
    LET constantsDirty == c.current.lightmapScaleOffset # sourceBatch.lightmapScaleOffset
        c1 == [c EXCEPT !.dirty.lightmapConstants = @ \/ constantsDirty]
        lightmapTexture == IF sourceBatch.lightmapScaleOffset # NULL
                           THEN GetLightmapTexture(sourceBatch.lightmapIndex)
                           ELSE NULL
    IN IF ~constantsDirty THEN c1
       ELSE [c1 EXCEPT !.current.lightmapScaleOffset = sourceBatch.lightmapScaleOffset,
                       !.dirty.lightmapTextures = c.current.lightmapTexture # lightmapTexture,
                       !.current.lightmapTexture = lightmapTexture]

CheckDirtyLightmap(c, sourceBatch) ==
    LET constantsDirty == c.current.lightmapScaleOffset # sourceBatch.lightmapScaleOffset
        c1 == [c EXCEPT !.dirty.lightmapConstants = constantsDirty]
        lightmapTexture == IF sourceBatch.lightmapScaleOffset # NULL
                           THEN GetLightmapTexture(sourceBatch.lightmapIndex)
                           ELSE NULL
    IN IF ~constantsDirty THEN c1
       ELSE [c1 EXCEPT !.current.lightmapScaleOffset = sourceBatch.lightmapScaleOffset,
                       !.dirty.lightmapTextures = c.current.lightmapTexture # lightmapTexture,
                       !.current.lightmapTexture = lightmapTexture]

\* lightAccumulator is NULL when neither ambient nor vertex lighting is enabled.
\* ExtractObjectConstants that takes over the world transform of the first batch only
ExtractObjectConstants_TransformKept(c, sourceBatch, lightAccumulator) ==
    LET c1 == IF enabled.ambientLighting
              THEN IF settings.ambientMode = "Flat"
                   THEN [c EXCEPT !.object.ambient =
                            [sh |-> lightAccumulator.sphericalHarmonics,
                             space |-> IF settings.gammaCorrection THEN "linear" ELSE "gamma"]]
                   ELSE IF settings.ambientMode = "Directional"
                   THEN [c EXCEPT !.object.sh = lightAccumulator.sphericalHarmonics]
                   ELSE c
              ELSE c
    IN [c1 EXCEPT !.object.geometryType = sourceBatch.geometryType,
                  !.object.worldTransform =
                      IF c.object.worldTransform = ObjectState.worldTransform
                      THEN sourceBatch.worldTransform ELSE @,
                  !.object.numWorldTransforms = sourceBatch.numWorldTransforms]

ExtractObjectConstants(c, sourceBatch, lightAccumulator) ==
    LET c1 == IF enabled.ambientLighting
              THEN IF settings.ambientMode = "Flat"
                   THEN [c EXCEPT !.object.ambient =
                            [sh |-> lightAccumulator.sphericalHarmonics,
                             space |-> IF settings.gammaCorrection THEN "linear" ELSE "gamma"]]
                   ELSE IF settings.ambientMode = "Directional"
                   THEN [c EXCEPT !.object.sh = lightAccumulator.sphericalHarmonics]
                   ELSE c
              ELSE c
    IN [c1 EXCEPT !.object.geometryType = sourceBatch.geometryType,
                  !.object.worldTransform = sourceBatch.worldTransform,
                  !.object.numWorldTransforms = sourceBatch.numWorldTransforms]

----------------------------------------------------------------------------
(* DrawCommandCompositor: commit changes to the draw queue *)

\* Contents of the SP_CAMERA group; the view-projection uses the depth bias.
CameraConstants(constantDepthBias) ==
    [viewProj |-> constantDepthBias, normalOffsetScale |-> outputShadowSplit # NoShadowSplit]

\* Contents of the SP_LIGHT group outside shadow passes.
LightConstants(c) ==
    [vertexLights |-> IF enabled.vertexLighting THEN <<c.current.vertexLightsData>> ELSE <<>>,
     pixelLight |-> IF c.current.pixelLightEnabled
                    THEN <<c.current.pixelLightParams>> ELSE <<>>]

\* Contents of the SP_MATERIAL group.
MaterialConstants(c) ==
    [parameters |-> GetShaderParameters(c.current.material),
     lmOffset |-> IF enabled.ambientLighting /\ c.current.lightmapScaleOffset # NULL
                  THEN <<c.current.lightmapScaleOffset>> ELSE <<>>]

CommitGroup(c, group, data) ==
    Emit(c, c.n, Command("CommitShaderParameterGroup", group, data))

\* UpdateDirtyConstants that leaves the frame constants flagged
UpdateDirtyConstants_FrameFlagKept(c) ==
    LET c1 == IF c.dirty.pipelineState
              THEN [Emit(c, c.n, Command("SetPipelineState", c.current.pipelineState, <<>>))
                      EXCEPT !.dirty.pipelineState = FALSE]
              ELSE c
        c2 == IF BeginShaderParameterGroup("SP_FRAME", c1.dirty.frameConstants)
              THEN CommitGroup(c1, "SP_FRAME", <<>>)
              ELSE c1
        c3 == IF BeginShaderParameterGroup("SP_CAMERA", c2.dirty.cameraConstants)
              THEN [CommitGroup(c2, "SP_CAMERA", CameraConstants(c2.current.constantDepthBias))
                      EXCEPT !.dirty.cameraConstants = FALSE]
              ELSE c2
        lightConstantsDirty == c3.dirty.pixelLightConstants \/ c3.dirty.vertexLightConstants
        c4 == IF outputShadowSplit # NoShadowSplit
              THEN IF BeginShaderParameterGroup("SP_LIGHT", FALSE)
                   THEN CommitGroup(c3, "SP_LIGHT",
                            [vertexLights |-> <<>>,
                             pixelLight |-> <<GetShaderParams(outputShadowSplit[1])>>])
                   ELSE c3
              ELSE IF enabled.anyLighting
              THEN IF BeginShaderParameterGroup("SP_LIGHT", lightConstantsDirty)
                   THEN CommitGroup(c3, "SP_LIGHT", LightConstants(c3))
                   ELSE c3
              ELSE c3
    IN IF BeginShaderParameterGroup("SP_MATERIAL",
                                    c4.dirty.material \/ c4.dirty.lightmapConstants)
       THEN CommitGroup(c4, "SP_MATERIAL", MaterialConstants(c4))
       ELSE c4

\* UpdateDirtyConstants that treats a shadow map pass like any other
UpdateDirtyConstants_NoShadowBranch(c) ==
    LET c1 == IF c.dirty.pipelineState
              THEN [Emit(c, c.n, Command("SetPipelineState", c.current.pipelineState, <<>>))
                      EXCEPT !.dirty.pipelineState = FALSE]
              ELSE c
        c2 == IF BeginShaderParameterGroup("SP_FRAME", c1.dirty.frameConstants)
              THEN [CommitGroup(c1, "SP_FRAME", <<>>) EXCEPT !.dirty.frameConstants = FALSE]
              ELSE c1
        c3 == IF BeginShaderParameterGroup("SP_CAMERA", c2.dirty.cameraConstants)
              THEN [CommitGroup(c2, "SP_CAMERA", CameraConstants(c2.current.constantDepthBias))
                      EXCEPT !.dirty.cameraConstants = FALSE]
              ELSE c2
        lightConstantsDirty == c3.dirty.pixelLightConstants \/ c3.dirty.vertexLightConstants
        c4 == IF enabled.anyLighting
              THEN IF BeginShaderParameterGroup("SP_LIGHT", lightConstantsDirty)
                   THEN CommitGroup(c3, "SP_LIGHT", LightConstants(c3))
                   ELSE c3
              ELSE c3
    IN IF BeginShaderParameterGroup("SP_MATERIAL",
                                    c4.dirty.material \/ c4.dirty.lightmapConstants)
       THEN CommitGroup(c4, "SP_MATERIAL", MaterialConstants(c4))
       ELSE c4

UpdateDirtyConstants(c) ==
    LET c1 == IF c.dirty.pipelineState
              THEN [Emit(c, c.n, Command("SetPipelineState", c.current.pipelineState, <<>>))
                      EXCEPT !.dirty.pipelineState = FALSE]
              ELSE c
        c2 == IF BeginShaderParameterGroup("SP_FRAME", c1.dirty.frameConstants)
              THEN [CommitGroup(c1, "SP_FRAME", <<>>) EXCEPT !.dirty.frameConstants = FALSE]
              ELSE c1
        c3 == IF BeginShaderParameterGroup("SP_CAMERA", c2.dirty.cameraConstants)
              THEN [CommitGroup(c2, "SP_CAMERA", CameraConstants(c2.current.constantDepthBias))
                      EXCEPT !.dirty.cameraConstants = FALSE]
              ELSE c2
        lightConstantsDirty == c3.dirty.pixelLightConstants \/ c3.dirty.vertexLightConstants
        c4 == IF outputShadowSplit # NoShadowSplit
              THEN IF BeginShaderParameterGroup("SP_LIGHT", FALSE)
                   THEN CommitGroup(c3, "SP_LIGHT",
                            [vertexLights |-> <<>>,
                             pixelLight |-> <<GetShaderParams(outputShadowSplit[1])>>])
                   ELSE c3
              ELSE IF enabled.anyLighting
              THEN IF BeginShaderParameterGroup("SP_LIGHT", lightConstantsDirty)
                   THEN CommitGroup(c3, "SP_LIGHT", LightConstants(c3))
                   ELSE c3
              ELSE c3
    IN IF BeginShaderParameterGroup("SP_MATERIAL",
                                    c4.dirty.material \/ c4.dirty.lightmapConstants)
       THEN CommitGroup(c4, "SP_MATERIAL", MaterialConstants(c4))
       ELSE c4

\* The resources of a commit that adds every texture of the material
ShaderResources_EmissiveKept(c) ==
    LET materialTextures == GetTextures(c.current.material)
        optional(unit, texture) ==
            IF texture # NULL THEN <<[unit |-> unit, texture |-> texture]>> ELSE <<>>
    IN globalResources
       \o materialTextures
       \o optional("TU_EMISSIVE", c.current.lightmapTexture)
       \o optional("TU_LIGHTRAMP", c.current.pixelLightRamp)
       \o optional("TU_LIGHTSHAPE", c.current.pixelLightShape)
       \o optional("TU_SHADOWMAP", c.current.pixelLightShadowMap)

\* The AddShaderResource calls of one resource commit, in order.
ShaderResources(c) ==
    LET materialTextures == GetTextures(c.current.material)
        keep(texture) == c.current.lightmapTexture = NULL \/ texture.unit # "TU_EMISSIVE"
        optional(unit, texture) ==
            IF texture # NULL THEN <<[unit |-> unit, texture |-> texture]>> ELSE <<>>
    IN globalResources
       \o SelectSeq(materialTextures, keep)
       \o optional("TU_EMISSIVE", c.current.lightmapTexture)
       \o optional("TU_LIGHTRAMP", c.current.pixelLightRamp)
       \o optional("TU_LIGHTSHAPE", c.current.pixelLightShape)
       \o optional("TU_SHADOWMAP", c.current.pixelLightShadowMap)

UpdateDirtyResources(c) ==
    LET resourcesDirty ==
            c.dirty.material \/ c.dirty.lightmapTextures \/ c.dirty.pixelLightTextures
    IN IF resourcesDirty
       THEN Emit(c, c.n, Command("CommitShaderResources", "", ShaderResources(c)))
       ELSE c

\* Contents of the SP_OBJECT group.
ObjectConstants(c) ==
    [ambient |-> IF enabled.ambientLighting
                 THEN IF settings.ambientMode = "Flat" THEN <<c.object.ambient>>
                      ELSE IF settings.ambientMode = "Directional" THEN <<c.object.sh>>
                      ELSE <<>>
                 ELSE <<>>,
     geometryType |-> c.object.geometryType,
     worldTransform |-> c.object.worldTransform]

AddObjectInstanceData(c) ==
    LET c1 == SetElements(c, "worldTransform", c.object.worldTransform)
    IN IF enabled.ambientLighting
       THEN IF settings.ambientMode = "Flat"
            THEN SetElements(c1, "ambient", <<c.object.ambient>>)
            ELSE IF settings.ambientMode = "Directional"
            THEN SetElements(c1, "ambient", <<c.object.sh>>)
            ELSE c1
       ELSE c1

----------------------------------------------------------------------------
(* DrawCommandCompositor: draw operations *)

\* DrawObject that ignores the missing index buffer
DrawObject_AlwaysIndexed(c) ==
    LET indexBuffer == GetIndexBuffer(c.current.geometry)
        c1 == IF c.dirty.geometry
              THEN [Emit(c, c.n, Command("SetBuffers", c.current.geometry,
                                         [indexBuffer |-> indexBuffer, instancing |-> FALSE]))
                      EXCEPT !.dirty.geometry = FALSE]
              ELSE c
    IN Emit(c1, c.n, Command("DrawIndexed", c.current.geometry, <<>>))

DrawObject(c) ==
    LET indexBuffer == GetIndexBuffer(c.current.geometry)
        c1 == IF c.dirty.geometry
              THEN [Emit(c, c.n, Command("SetBuffers", c.current.geometry,
                                         [indexBuffer |-> indexBuffer, instancing |-> FALSE]))
                      EXCEPT !.dirty.geometry = FALSE]
              ELSE c
    IN IF indexBuffer # NULL
       THEN Emit(c1, c.n, Command("DrawIndexed", c.current.geometry, <<>>))
       ELSE Emit(c1, c.n, Command("Draw", c.current.geometry, <<>>))

\* DrawObjectInstanced that draws the first count slots of the buffer
DrawObjectInstanced_RangeFromZero(c) ==
    LET geometry == c.instancingGroup.geometry
        c1 == Emit(c, 0, Command("SetBuffers", geometry,
                                 [indexBuffer |-> GetIndexBuffer(geometry),
                                  instancing |-> TRUE]))
        c2 == Emit(c1, 0, Command("DrawIndexedInstanced", geometry,
                                  [start |-> 0, count |-> c.instancingGroup.count]))
    IN [c2 EXCEPT !.instancingGroup.count = 0]

\* DrawObjectInstanced that relies on the buffers bound before
DrawObjectInstanced_BuffersKept(c) ==
    LET geometry == c.instancingGroup.geometry
        c2 == Emit(c, 0, Command("DrawIndexedInstanced", geometry,
                                 [start |-> c.instancingGroup.start,
                                  count |-> c.instancingGroup.count]))
    IN [c2 EXCEPT !.instancingGroup.count = 0]

\* Called with instancingGroup_.count_ > 0 only (assert).
DrawObjectInstanced(c) ==
    LET geometry == c.instancingGroup.geometry
        c1 == Emit(c, 0, Command("SetBuffers", geometry,
                                 [indexBuffer |-> GetIndexBuffer(geometry),
                                  instancing |-> TRUE]))
        c2 == Emit(c1, 0, Command("DrawIndexedInstanced", geometry,
                                  [start |-> c.instancingGroup.start,
                                   count |-> c.instancingGroup.count]))
    IN [c2 EXCEPT !.instancingGroup.count = 0]

\* FlushDrawCommands that leaves the open group undrawn
FlushDrawCommands_Skipped(c) == c

\* FlushDrawCommands that draws the group whether or not it holds instances
FlushDrawCommands_Unguarded(c) == DrawObjectInstanced(c)

FlushDrawCommands(c) ==
    IF c.instancingGroup.count > 0 THEN DrawObjectInstanced(c) ELSE c

----------------------------------------------------------------------------
(* DrawCommandCompositor::ProcessBatch *)

\* resetInstancingGroup that never lets a group continue
ResetInstancingGroup_Always(c) == TRUE

\* The value of the local resetInstancingGroup, c being the state after the checks.
ResetInstancingGroup(c) == c.instancingGroup.count = 0 \/ IsAnyStateDirty(c.dirty)

\* The value of the local beginInstancingGroup.
\* beginInstancingGroup that does not ask whether the pass enables static instancing
BeginInstancingGroup_FlagIgnored(pipelineBatch) ==
    /\ pipelineBatch.geometryType = GEOM_STATIC
    /\ GetIndexBuffer(pipelineBatch.geometry) # NULL

BeginInstancingGroup(pipelineBatch) ==
    /\ enabled.staticInstancing
    /\ pipelineBatch.geometryType = GEOM_STATIC
    /\ GetIndexBuffer(pipelineBatch.geometry) # NULL

\* UpdateDirtyState that checks the pixel light in every pass
UpdateDirtyState_PixelLightAlwaysChecked(c, pipelineBatch, sourceBatch) ==
    LET lightAccumulator == IF enabled.ambientLighting \/ enabled.vertexLighting
                            THEN GetGeometryLighting(pipelineBatch.drawableIndex)
                            ELSE [vertexLights |-> <<>>, sphericalHarmonics |-> NULL]
        c1 == ExtractObjectConstants(c, sourceBatch, lightAccumulator)
        c2 == CheckDirtyCommonState(c1, pipelineBatch)
        c3 == CheckDirtyPixelLight(c2, pipelineBatch)
        c4 == IF enabled.vertexLighting THEN CheckDirtyVertexLight(c3, lightAccumulator) ELSE c3
    IN IF enabled.ambientLighting THEN CheckDirtyLightmap(c4, sourceBatch) ELSE c4

\* Lines 516-525: extract the object constants, update dirty flags and cached state.
UpdateDirtyState(c, pipelineBatch, sourceBatch) ==
    LET lightAccumulator == IF enabled.ambientLighting \/ enabled.vertexLighting
                            THEN GetGeometryLighting(pipelineBatch.drawableIndex)
                            ELSE [vertexLights |-> <<>>, sphericalHarmonics |-> NULL]
        c1 == ExtractObjectConstants(c, sourceBatch, lightAccumulator)
        c2 == CheckDirtyCommonState(c1, pipelineBatch)
        c3 == IF enabled.pixelLighting THEN CheckDirtyPixelLight(c2, pipelineBatch) ELSE c2
        c4 == IF enabled.vertexLighting THEN CheckDirtyVertexLight(c3, lightAccumulator) ELSE c3
    IN IF enabled.ambientLighting THEN CheckDirtyLightmap(c4, sourceBatch) ELSE c4

\* ResetGroup that flushes the open group after committing the new batch's state
ResetGroup_FlushAfterStateChanges(c, pipelineBatch) ==
    LET c1 == UpdateDirtyConstants(c)
        c2 == UpdateDirtyResources(c1)
        c3 == IF c2.instancingGroup.count > 0 THEN DrawObjectInstanced(c2) ELSE c2
    IN IF BeginInstancingGroup(pipelineBatch)
       THEN AddObjectInstanceData(
                [AddInstance(c3) EXCEPT !.instancingGroup.count = 1,
                                        !.instancingGroup.start = AddInstanceResult(c3),
                                        !.instancingGroup.geometry = c3.current.geometry])
       ELSE DrawObject(CommitGroup(c3, "SP_OBJECT", ObjectConstants(c3)))

\* Lines 530-553: the branch taken when the instancing group is reset.
ResetGroup(c, pipelineBatch) ==
    LET c1 == IF c.instancingGroup.count > 0 THEN DrawObjectInstanced(c) ELSE c
        c2 == UpdateDirtyConstants(c1)
        c3 == UpdateDirtyResources(c2)
    IN IF BeginInstancingGroup(pipelineBatch)
       THEN AddObjectInstanceData(
                [AddInstance(c3) EXCEPT !.instancingGroup.count = 1,
                                        !.instancingGroup.start = AddInstanceResult(c3),
                                        !.instancingGroup.geometry = c3.current.geometry])
       ELSE DrawObject(CommitGroup(c3, "SP_OBJECT", ObjectConstants(c3)))

\* ContinueGroup that does not count the instance it adds
ContinueGroup_InstanceNotCounted(c) ==
    AddObjectInstanceData(AddInstance(c))

\* Lines 557-559: the branch that continues the open group.
ContinueGroup(c) ==
    AddObjectInstanceData(AddInstance([c EXCEPT !.instancingGroup.count = @ + 1]))

ProcessBatch(c, pipelineBatch, sourceBatch) ==
    LET c1 == UpdateDirtyState(c, pipelineBatch, sourceBatch)
    IN IF ResetInstancingGroup(c1) THEN ResetGroup(c1, pipelineBatch) ELSE ContinueGroup(c1)

ProcessSceneBatch(c, pipelineBatch) ==
    ProcessBatch(c, pipelineBatch, pipelineBatch.sourceBatch)

\* The helper source batch carries the light's volume transform and defaults.
ProcessLightVolumeBatch(c, pipelineBatch) ==
    ProcessBatch(c, pipelineBatch,
        [geometryType |-> GEOM_STATIC,
         worldTransform |-> GetVolumeTransform(pipelineBatch.lightIndex),
         numWorldTransforms |-> 1, lightmapScaleOffset |-> NULL, lightmapIndex |-> 0])

----------------------------------------------------------------------------
(* BatchRenderer *)

\* The compositor of the running render call, with its two destinations; n is the
\* position in the batch list of the batch being processed.
Compositor ==
    [dirty |-> dirty, current |-> current, object |-> object,
     instancingGroup |-> instancingGroup,
     drawQueue |-> drawQueue, instancingBuffer |-> instancingBuffer,
     queueOwner |-> queueOwner, instanceOwner |-> instanceOwner,
     n |-> Len(batches) + 1]

\* The variables take the compositor state c.
Becomes(c) ==
    /\ dirty' = c.dirty
    /\ current' = c.current
    /\ object' = c.object
    /\ instancingGroup' = c.instancingGroup
    /\ drawQueue' = c.drawQueue
    /\ instancingBuffer' = c.instancingBuffer
    /\ queueOwner' = c.queueOwner
    /\ instanceOwner' = c.instanceOwner

\* The two compositors that may share the instancing buffer
CompositorIds == {1, 2}

\* A compositor before its render call: the members as constructed, its own draw
\* queue, the batches it consumed
IdleCompositor ==
    [pc |-> "idle", batches |-> <<>>, dirty |-> DirtyStateFlags,
     current |-> CachedSharedState, object |-> ObjectState,
     instancingGroup |-> InstancingGroupState, drawQueue |-> <<>>, queueOwner |-> <<>>]

\* A render call whose compositor keeps the members the previous compositor left
Construct_MembersKept(name, flags, shadowSplit, resources) ==
    /\ pc' = "loop"
    /\ call' = name
    /\ enabled' = EnabledFeatureFlags(flags)
    /\ outputShadowSplit' = shadowSplit
    /\ globalResources' = resources
    /\ batches' = <<>>
    /\ UNCHANGED <<dirty, current, object, instancingGroup,
                   cameraVars, useConstantBuffers, fileVars>>
    /\ UNCHANGED <<settings, anyStateDirty, resetInstancingGroup, beginInstancingGroup,
                   drawQueue, instancingBuffer, queueOwner, instanceOwner, checked,
                   cachedBefore, previousCall, sharedVars,
                   cameraVars, useConstantBuffers, fileVars>>

\* A constructor that starts with an instancing group of one instance
Construct_GroupLeftOpen(name, flags, shadowSplit, resources) ==
    /\ pc' = "loop"
    /\ call' = name
    /\ enabled' = EnabledFeatureFlags(flags)
    /\ outputShadowSplit' = shadowSplit
    /\ globalResources' = resources
    /\ batches' = <<>>
    /\ dirty' = DirtyStateFlags
    /\ current' = CachedSharedState
    /\ object' = ObjectState
    /\ instancingGroup' = [InstancingGroupState EXCEPT !.count = 1]
    /\ UNCHANGED <<settings, anyStateDirty, resetInstancingGroup, beginInstancingGroup,
                   drawQueue, instancingBuffer, queueOwner, instanceOwner, checked,
                   cachedBefore, previousCall, sharedVars,
                   cameraVars, useConstantBuffers, fileVars>>

\* DrawCommandCompositor's constructor, at the start of a render call.
Construct(name, flags, shadowSplit, resources) ==
    /\ pc' = "loop"
    /\ call' = name
    /\ enabled' = EnabledFeatureFlags(flags)
    /\ outputShadowSplit' = shadowSplit
    /\ globalResources' = resources
    /\ batches' = <<>>
    /\ dirty' = DirtyStateFlags
    /\ current' = CachedSharedState
    /\ object' = ObjectState
    /\ instancingGroup' = InstancingGroupState
    /\ UNCHANGED <<settings, anyStateDirty, resetInstancingGroup, beginInstancingGroup,
                   drawQueue, instancingBuffer, queueOwner, instanceOwner, checked,
                   cachedBefore, previousCall, sharedVars,
                   cameraVars, useConstantBuffers, fileVars>>

Init ==
    /\ pc = "idle"
    /\ call = "none"
    /\ settings \in SettingsSet
    /\ enabled = EnabledFeatureFlags(MakeFlags(FALSE, FALSE, FALSE, FALSE))
    /\ outputShadowSplit = NoShadowSplit
    /\ globalResources = <<>>
    /\ batches = <<>>
    /\ dirty = DirtyStateFlags
    /\ current = CachedSharedState
    /\ object = ObjectState
    /\ instancingGroup = InstancingGroupState
    /\ anyStateDirty = FALSE
    /\ resetInstancingGroup = FALSE
    /\ beginInstancingGroup = FALSE
    /\ drawQueue = <<>>
    /\ instancingBuffer = <<>>
    /\ queueOwner = <<>>
    /\ instanceOwner = <<>>
    /\ checked = DirtyStateFlags
    /\ cachedBefore = CachedSharedState
    /\ previousCall = <<>>
    /\ interleaved = FALSE
    /\ compositors = [t \in CompositorIds |-> IdleCompositor]
    /\ slotCompositor = <<>>
    /\ camera = SceneCamera
    /\ URHO3D_OPENGL = TRUE
    /\ cameraParameters = NoCameraParameters
    /\ useConstantBuffers = FALSE
    /\ NoFileStream

\* BatchRenderer::SetSettings
SetSettings ==
    /\ pc = "idle"
    /\ \E s \in SettingsSet : settings' = s
    /\ UNCHANGED <<pc, call, enabled, outputShadowSplit, globalResources, batches, dirty,
                   current, object, instancingGroup, anyStateDirty, resetInstancingGroup,
                   beginInstancingGroup, drawQueue, instancingBuffer, queueOwner,
                   instanceOwner, checked, cachedBefore, previousCall, sharedVars,
                   cameraVars, useConstantBuffers, fileVars>>

\* BatchRenderer::RenderBatches(PipelineBatchByState), up to the loop
RenderBatchesByState ==
    /\ pc = "idle"
    /\ \E pass \in RenderPasses :
        Construct("RenderBatches", pass.flags, pass.outputShadowSplit, <<>>)

\* BatchRenderer::RenderBatches(PipelineBatchBackToFront), up to the loop
RenderBatchesBackToFront ==
    /\ pc = "idle"
    /\ \E pass \in RenderPasses :
        Construct("RenderBatches", pass.flags, pass.outputShadowSplit, <<>>)

\* BatchRenderer::RenderLightVolumeBatches, up to the loop
RenderLightVolumeBatches ==
    /\ pc = "idle"
    /\ Construct("RenderLightVolumeBatches", MakeFlags(FALSE, FALSE, TRUE, FALSE),
                 NoShadowSplit, GeometryBufferResources)

\* One iteration of a render call's loop over its batch list.
LoopStep(pipelineBatch, sourceBatch, c) ==
    /\ pc = "loop"
    /\ Len(batches) < MaxBatches
    /\ batches' = Append(batches, pipelineBatch)
    /\ anyStateDirty' = IsAnyStateDirty(
                            UpdateDirtyState(Compositor, pipelineBatch, sourceBatch).dirty)
    /\ resetInstancingGroup' = ResetInstancingGroup(
                                   UpdateDirtyState(Compositor, pipelineBatch, sourceBatch))
    /\ beginInstancingGroup' = (resetInstancingGroup' /\ BeginInstancingGroup(pipelineBatch))
    /\ checked' = UpdateDirtyState(Compositor, pipelineBatch, sourceBatch).dirty
    /\ cachedBefore' = current
    /\ Becomes(c)
    /\ slotCompositor' = slotCompositor
                             \o [s \in 1 .. Len(c.instancingBuffer) - Len(instancingBuffer) |-> 0]
    /\ UNCHANGED <<pc, call, settings, enabled, outputShadowSplit, globalResources,
                   previousCall, interleaved, compositors,
                   cameraVars, useConstantBuffers, fileVars>>

\* compositor.ProcessSceneBatch(*sortedBatch.pipelineBatch_)
SceneBatchStep ==
    /\ call = "RenderBatches"
    /\ \E pipelineBatch \in SceneBatches :
           LoopStep(pipelineBatch, pipelineBatch.sourceBatch,
                    ProcessSceneBatch(Compositor, pipelineBatch))

\* compositor.ProcessLightVolumeBatch(*sortedBatch.pipelineBatch_)
LightVolumeBatchStep ==
    /\ call = "RenderLightVolumeBatches"
    /\ \E pipelineBatch \in LightVolumeBatches :
           LoopStep(pipelineBatch,
                    [pipelineBatch.sourceBatch EXCEPT
                        !.worldTransform = GetVolumeTransform(pipelineBatch.lightIndex)],
                    ProcessLightVolumeBatch(Compositor, pipelineBatch))

\* compositor.FlushDrawCommands() after the loop; the render call returns.
FinalFlush ==
    /\ pc = "loop"
    /\ pc' = "done"
    /\ Becomes(FlushDrawCommands(Compositor))
    /\ UNCHANGED <<call, settings, enabled, outputShadowSplit, globalResources, batches,
                   anyStateDirty, resetInstancingGroup, beginInstancingGroup, checked,
                   cachedBefore, previousCall, sharedVars,
                   cameraVars, useConstantBuffers, fileVars>>

Next ==
    \/ SetSettings
    \/ RenderBatchesByState
    \/ RenderBatchesBackToFront
    \/ RenderLightVolumeBatches
    \/ SceneBatchStep
    \/ LightVolumeBatchStep
    \/ FinalFlush

Spec == Init /\ [][Next]_vars

----------------------------------------------------------------------------
(* Two consecutive render calls on one BatchRenderer, into the same draw queue *)

\* The batches the two calls draw their lists from
CallBatches ==
    { BaseBatch,
      [BaseBatch EXCEPT !.geometry = "G2"],
      [BaseBatch EXCEPT !.lightIndex = 0] }

\* The (flags, outputShadowSplit) pairs of the two calls
CallPasses ==
    { [flags |-> MakeFlags(FALSE, FALSE, FALSE, TRUE), outputShadowSplit |-> NoShadowSplit],
      [flags |-> MakeFlags(TRUE, TRUE, TRUE, TRUE), outputShadowSplit |-> NoShadowSplit] }

\* BatchRenderer::RenderBatches, up to the loop
CallRenderBatches ==
    /\ pc = "idle"
    /\ \E pass \in CallPasses :
        Construct("RenderBatches", pass.flags, pass.outputShadowSplit, <<>>)

\* BatchRenderer::RenderLightVolumeBatches, up to the loop
CallRenderLightVolumeBatches ==
    /\ pc = "idle"
    /\ Construct("RenderLightVolumeBatches", MakeFlags(FALSE, FALSE, TRUE, FALSE),
                 NoShadowSplit, GeometryBufferResources)

\* compositor.ProcessSceneBatch(*sortedBatch.pipelineBatch_)
CallSceneBatchStep ==
    /\ call = "RenderBatches"
    /\ Len(batches) < MaxCallBatches
    /\ \E pipelineBatch \in CallBatches :
           LoopStep(pipelineBatch, pipelineBatch.sourceBatch,
                    ProcessSceneBatch(Compositor, pipelineBatch))

\* compositor.ProcessLightVolumeBatch(*sortedBatch.pipelineBatch_)
CallLightVolumeBatchStep ==
    /\ call = "RenderLightVolumeBatches"
    /\ Len(batches) < MaxCallBatches
    /\ \E pipelineBatch \in LightVolumeBatches :
           LoopStep(pipelineBatch,
                    [pipelineBatch.sourceBatch EXCEPT
                        !.worldTransform = GetVolumeTransform(pipelineBatch.lightIndex)],
                    ProcessLightVolumeBatch(Compositor, pipelineBatch))

\* The first render call has returned and its compositor is destroyed; what it
\* left behind is remembered for the second call.
ReturnFromCall ==
    /\ pc = "done"
    /\ previousCall = <<>>
    /\ pc' = "idle"
    /\ previousCall' = <<[call |-> call, enabled |-> enabled, batches |-> batches,
                          commands |-> Len(drawQueue),
                          instances |-> Len(instancingBuffer)]>>
    /\ UNCHANGED <<call, settings, enabled, outputShadowSplit, globalResources, batches,
                   dirty, current, object, instancingGroup, anyStateDirty,
                   resetInstancingGroup, beginInstancingGroup, drawQueue, instancingBuffer,
                   queueOwner, instanceOwner, checked, cachedBefore, sharedVars,
                   cameraVars, useConstantBuffers, fileVars>>

NextCalls ==
    \/ CallRenderBatches
    \/ CallRenderLightVolumeBatches
    \/ CallSceneBatchStep
    \/ CallLightVolumeBatchStep
    \/ FinalFlush
    \/ ReturnFromCall

SpecCalls == Init /\ [][NextCalls]_vars

----------------------------------------------------------------------------
(* Two compositors over one InstancingBufferCompositor, each with its own draw     *)
(* queue.  Nothing in the code synchronizes them; a step is one whole ProcessBatch *)
(* or FlushDrawCommands of one compositor, the coarsest way their work can mix.   *)

\* The batches the two compositors draw their lists from
SharedBatches ==
    { BaseBatch,
      [BaseBatch EXCEPT !.geometry = "G2"],
      [BaseBatch EXCEPT !.geometry = "G3"] }

\* The other compositor
Other(t) == CHOOSE u \in CompositorIds : u # t

\* Compositor t with its draw queue and the shared instancing buffer
SharedCompositor(t) ==
    [dirty |-> compositors[t].dirty, current |-> compositors[t].current,
     object |-> compositors[t].object,
     instancingGroup |-> compositors[t].instancingGroup,
     drawQueue |-> compositors[t].drawQueue, instancingBuffer |-> instancingBuffer,
     queueOwner |-> compositors[t].queueOwner, instanceOwner |-> instanceOwner,
     n |-> Len(compositors[t].batches) + 1]

\* Compositor t and the shared instancing buffer take the compositor state c.
SharedBecomes(t, position, consumed, c) ==
    /\ compositors' = [compositors EXCEPT ![t] =
           [pc |-> position, batches |-> consumed, dirty |-> c.dirty,
            current |-> c.current, object |-> c.object,
            instancingGroup |-> c.instancingGroup,
            drawQueue |-> c.drawQueue, queueOwner |-> c.queueOwner]]
    /\ instancingBuffer' = c.instancingBuffer
    /\ instanceOwner' = c.instanceOwner
    /\ slotCompositor' = slotCompositor
                             \o [s \in 1 .. Len(c.instancingBuffer) - Len(instancingBuffer) |-> t]
    /\ UNCHANGED <<pc, call, settings, enabled, outputShadowSplit, globalResources, batches,
                   dirty, current, object, instancingGroup, anyStateDirty,
                   resetInstancingGroup, beginInstancingGroup, drawQueue, queueOwner,
                   checked, cachedBefore, previousCall, interleaved,
                   cameraVars, useConstantBuffers, fileVars>>

InitShared ==
    /\ pc = "idle"
    /\ call = "none"
    /\ settings \in SettingsSet
    /\ enabled = EnabledFeatureFlags(MakeFlags(FALSE, FALSE, FALSE, TRUE))
    /\ outputShadowSplit = NoShadowSplit
    /\ globalResources = <<>>
    /\ batches = <<>>
    /\ dirty = DirtyStateFlags
    /\ current = CachedSharedState
    /\ object = ObjectState
    /\ instancingGroup = InstancingGroupState
    /\ anyStateDirty = FALSE
    /\ resetInstancingGroup = FALSE
    /\ beginInstancingGroup = FALSE
    /\ drawQueue = <<>>
    /\ instancingBuffer = <<>>
    /\ queueOwner = <<>>
    /\ instanceOwner = <<>>
    /\ checked = DirtyStateFlags
    /\ cachedBefore = CachedSharedState
    /\ previousCall = <<>>
    /\ interleaved \in BOOLEAN
    /\ compositors = [t \in CompositorIds |-> IdleCompositor]
    /\ slotCompositor = <<>>
    /\ camera = SceneCamera
    /\ URHO3D_OPENGL = TRUE
    /\ cameraParameters = NoCameraParameters
    /\ useConstantBuffers = FALSE
    /\ NoFileStream

\* RenderBatches of compositor t, up to the loop.  One pass at a time unless the
\* render calls interleave.
SharedRenderBatches(t) ==
    /\ compositors[t].pc = "idle"
    /\ ~interleaved => compositors[Other(t)].pc # "loop"
    /\ SharedBecomes(t, "loop", <<>>, SharedCompositor(t))

\* compositor.ProcessSceneBatch(*sortedBatch.pipelineBatch_) of compositor t
SharedSceneBatchStep(t) ==
    /\ compositors[t].pc = "loop"
    /\ Len(compositors[t].batches) < MaxSharedBatches
    /\ \E pipelineBatch \in SharedBatches :
           SharedBecomes(t, "loop", Append(compositors[t].batches, pipelineBatch),
                         ProcessSceneBatch(SharedCompositor(t), pipelineBatch))

\* compositor.FlushDrawCommands() of compositor t; its render call returns.
SharedFinalFlush(t) ==
    /\ compositors[t].pc = "loop"
    /\ SharedBecomes(t, "done", compositors[t].batches,
                     FlushDrawCommands(SharedCompositor(t)))

NextShared ==
    \E t \in CompositorIds :
        \/ SharedRenderBatches(t)
        \/ SharedSceneBatchStep(t)
        \/ SharedFinalFlush(t)

SpecShared == InitShared /\ [][NextShared]_vars

----------------------------------------------------------------------------
(* The camera constants of AddCameraConstants, for every camera and both builds *)

InitCamera ==
    /\ pc = "idle"
    /\ call = "none"
    /\ settings \in SettingsSet
    /\ enabled = EnabledFeatureFlags(MakeFlags(FALSE, FALSE, FALSE, FALSE))
    /\ outputShadowSplit = NoShadowSplit
    /\ globalResources = <<>>
    /\ batches = <<>>
    /\ dirty = DirtyStateFlags
    /\ current = CachedSharedState
    /\ object = ObjectState
    /\ instancingGroup = InstancingGroupState
    /\ anyStateDirty = FALSE
    /\ resetInstancingGroup = FALSE
    /\ beginInstancingGroup = FALSE
    /\ drawQueue = <<>>
    /\ instancingBuffer = <<>>
    /\ queueOwner = <<>>
    /\ instanceOwner = <<>>
    /\ checked = DirtyStateFlags
    /\ cachedBefore = CachedSharedState
    /\ previousCall = <<>>
    /\ interleaved = FALSE
    /\ compositors = [t \in CompositorIds |-> IdleCompositor]
    /\ slotCompositor = <<>>
    /\ camera \in Cameras
    /\ URHO3D_OPENGL \in BOOLEAN
    /\ cameraParameters = NoCameraParameters
    /\ useConstantBuffers = FALSE
    /\ NoFileStream

\* What a camera step leaves alone
CameraStepUnchanged ==
    UNCHANGED <<pc, call, settings, enabled, outputShadowSplit, globalResources, batches,
                dirty, current, object, instancingGroup, anyStateDirty,
                resetInstancingGroup, beginInstancingGroup, drawQueue, instancingBuffer,
                queueOwner, instanceOwner, checked, cachedBefore, previousCall, sharedVars,
                camera, URHO3D_OPENGL, useConstantBuffers, fileVars>>

\* VSP_DEPTHMODE of AddCameraConstants
DepthModeParameter ==
    /\ cameraParameters.depthMode = <<>>
    /\ cameraParameters' =
           [cameraParameters EXCEPT !.depthMode = <<GetCameraDepthModeParameter(camera)>>]
    /\ CameraStepUnchanged

\* PSP_DEPTHRECONSTRUCT of AddCameraConstants
DepthReconstructParameter ==
    /\ cameraParameters.depthReconstruct = <<>>
    /\ cameraParameters' =
           [cameraParameters EXCEPT
               !.depthReconstruct = <<GetCameraDepthReconstructParameter(camera)>>]
    /\ CameraStepUnchanged

\* PSP_FOGPARAMS of AddCameraConstants
FogParameter ==
    /\ cameraParameters.fogParams = <<>>
    /\ cameraParameters' = [cameraParameters EXCEPT !.fogParams = <<GetFogParameter(camera)>>]
    /\ CameraStepUnchanged

NextCamera ==
    \/ DepthModeParameter
    \/ DepthReconstructParameter
    \/ FogParameter

SpecCamera == InitCamera /\ [][NextCamera]_vars

----------------------------------------------------------------------------
(* Shadow map passes: RenderBatches with an output shadow split, into a queue of *)
(* either kind                                                                  *)

\* The (flags, outputShadowSplit) pairs of the shadow map passes: a split of light 0
\* or of light 1, rendered without and with per-pixel lighting
ShadowPasses ==
    [flags : {MakeFlags(FALSE, FALSE, FALSE, TRUE), MakeFlags(FALSE, FALSE, TRUE, TRUE)},
     outputShadowSplit : {<<0>>, <<1>>}]

\* The shadow caster batches: of no light, of either light, with a depth bias
ShadowBatches ==
    { BaseBatch,
      [BaseBatch EXCEPT !.lightIndex = 0],
      [BaseBatch EXCEPT !.lightIndex = 1],
      [BaseBatch EXCEPT !.pipelineState = "S2"],
      [BaseBatch EXCEPT !.drawableIndex = 1, !.sourceBatch.worldTransform = "W2"] }

InitShadow ==
    /\ pc = "idle"
    /\ call = "none"
    /\ settings \in SettingsSet
    /\ enabled = EnabledFeatureFlags(MakeFlags(FALSE, FALSE, FALSE, FALSE))
    /\ outputShadowSplit = NoShadowSplit
    /\ globalResources = <<>>
    /\ batches = <<>>
    /\ dirty = DirtyStateFlags
    /\ current = CachedSharedState
    /\ object = ObjectState
    /\ instancingGroup = InstancingGroupState
    /\ anyStateDirty = FALSE
    /\ resetInstancingGroup = FALSE
    /\ beginInstancingGroup = FALSE
    /\ drawQueue = <<>>
    /\ instancingBuffer = <<>>
    /\ queueOwner = <<>>
    /\ instanceOwner = <<>>
    /\ checked = DirtyStateFlags
    /\ cachedBefore = CachedSharedState
    /\ previousCall = <<>>
    /\ interleaved = FALSE
    /\ compositors = [t \in CompositorIds |-> IdleCompositor]
    /\ slotCompositor = <<>>
    /\ camera = SceneCamera
    /\ URHO3D_OPENGL = TRUE
    /\ cameraParameters = NoCameraParameters
    /\ useConstantBuffers \in BOOLEAN
    /\ NoFileStream

\* BatchRenderer::RenderBatches of a shadow map pass, up to the loop
ShadowRenderBatches ==
    /\ pc = "idle"
    /\ \E pass \in ShadowPasses :
        Construct("RenderBatches", pass.flags, pass.outputShadowSplit, <<>>)

\* compositor.ProcessSceneBatch(*sortedBatch.pipelineBatch_) of a shadow map pass
ShadowSceneBatchStep ==
    /\ call = "RenderBatches"
    /\ \E pipelineBatch \in ShadowBatches :
           LoopStep(pipelineBatch, pipelineBatch.sourceBatch,
                    ProcessSceneBatch(Compositor, pipelineBatch))

NextShadow ==
    \/ ShadowRenderBatches
    \/ ShadowSceneBatchStep
    \/ FinalFlush

SpecShadow == InitShadow /\ [][NextShadow]_vars

----------------------------------------------------------------------------
(* Reading the draw queue and the instancing buffer *)

DirectDrawOps == {"Draw", "DrawIndexed"}
DrawOps == DirectDrawOps \cup {"DrawIndexedInstanced"}

\* Queue positions holding a draw command
DrawPositions == {k \in DOMAIN drawQueue : drawQueue[k].op \in DrawOps}
DirectDrawPositions == {k \in DOMAIN drawQueue : drawQueue[k].op \in DirectDrawOps}
InstancedDrawPositions == {k \in DOMAIN drawQueue : drawQueue[k].op = "DrawIndexedInstanced"}

\* Instance slots [start, start+count) of the instanced draw at position k
\* (slot s is element s + 1 of the buffer)
SlotsOf(k) == drawQueue[k].data.start .. drawQueue[k].data.start + drawQueue[k].data.count - 1

\* Positions in the batch list of the batches the draw at position k covers
Covers(k) ==
    IF drawQueue[k].op = "DrawIndexedInstanced"
    THEN {instanceOwner[s + 1] : s \in SlotsOf(k) \cap (0 .. Len(instanceOwner) - 1)}
    ELSE {queueOwner[k]}

RECURSIVE SumCounts(_)
SumCounts(positions) ==
    IF positions = {} THEN 0
    ELSE LET k == CHOOSE x \in positions : TRUE
         IN drawQueue[k].data.count + SumCounts(positions \ {k})

\* Instancing eligibility of a batch in the running pass (section 4.3 of the design)
Eligible(batch) ==
    /\ enabled.staticInstancing
    /\ batch.geometryType = GEOM_STATIC
    /\ GetIndexBuffer(batch.geometry) # NULL

\* The inputs of b that the running pass evaluates equal those of a.
SameInputs(a, b) ==
    /\ a.pipelineState = b.pipelineState
    /\ a.material = b.material
    /\ a.geometry = b.geometry
    /\ enabled.pixelLighting => a.lightIndex = b.lightIndex
    /\ enabled.vertexLighting =>
           GetGeometryLighting(a.drawableIndex).vertexLights
               = GetGeometryLighting(b.drawableIndex).vertexLights
    /\ enabled.ambientLighting =>
           a.sourceBatch.lightmapScaleOffset = b.sourceBatch.lightmapScaleOffset

\* Positions that start a maximal run of eligible batches with unchanged inputs,
\* and positions of ineligible batches
RunStarts ==
    {k \in DOMAIN batches :
        \/ ~Eligible(batches[k])
        \/ k = 1
        \/ ~Eligible(batches[k - 1])
        \/ ~SameInputs(batches[k - 1], batches[k])}

----------------------------------------------------------------------------
(* Claims *)

\* C1: when a render call has returned, the number of draw commands in the queue
\* equals the number of maximal contiguous runs of instancing-eligible batches with
\* unchanged inputs plus the number of ineligible batches.
C1_DrawCountEqualsRuns ==
    pc = "done" /\ call = "RenderBatches" =>
        Cardinality(DrawPositions) = Cardinality(RunStarts)

\* C2: when a render call has returned, no instancing group is open and every input
\* batch is covered by exactly one emitted draw: direct draws plus the instance counts
\* of the instanced draws add up to the number of batches.
C2_NoBatchDropped ==
    pc = "done" =>
        /\ instancingGroup.count = 0
        /\ Cardinality(DirectDrawPositions) + SumCounts(InstancedDrawPositions) = Len(batches)
        /\ \A i \in DOMAIN batches :
               Cardinality({k \in DrawPositions : i \in Covers(k)}) = 1

C2_Witness ==
    /\ pc = "done"
    /\ Len(batches) = 3
    /\ \E k \in InstancedDrawPositions : drawQueue[k].data.count = 2
    /\ DirectDrawPositions # {}

\* C3: with static instancing enabled, the list (a) static indexed batch, (b) static
\* batch with the same geometry, material and state, (c) batch of geometry type
\* skinned with the same material and state, yields exactly two draws: an
\* indexed-instanced draw of count 2 covering a and b that precedes every command
\* caused by c, then one direct draw for c.
C3_EndToEndScenario ==
    ( /\ pc = "done"
      /\ call = "RenderBatches"
      /\ enabled.staticInstancing
      /\ Len(batches) = 3
      /\ Eligible(batches[1])
      /\ batches[2].geometryType = GEOM_STATIC
      /\ SameInputs(batches[1], batches[2])
      /\ batches[3].geometryType = GEOM_SKINNED
      /\ batches[3].material = batches[1].material
      /\ batches[3].pipelineState = batches[1].pipelineState )
    => \E i \in InstancedDrawPositions, d \in DirectDrawPositions :
           /\ DrawPositions = {i, d}
           /\ drawQueue[i].data.count = 2
           /\ Covers(i) = {1, 2}
           /\ Covers(d) = {3}
           /\ \A k \in DOMAIN drawQueue : queueOwner[k] = 3 => i < k

\* C4: every batch covered by an instanced draw, or accumulated in the open
\* instancing group, is instancing-eligible: static instancing is enabled, its
\* geometry type is static and its geometry has an index buffer.
C4_InstancedBatchesEligible ==
    \A s \in DOMAIN instanceOwner : Eligible(batches[instanceOwner[s]])

\* Slots of the open instancing group
OpenSlots ==
    instancingGroup.start .. instancingGroup.start + instancingGroup.count - 1

\* C5: at every batch boundary at most one instancing group is open: the instances
\* not yet drawn are exactly those of instancingGroup_; while it is open its geometry
\* is current_.geometry_ and the geometry of every batch accumulated in it; and every
\* instanced draw covers only batches of the geometry it draws.
C5_RunGeometry ==
    pc \in {"loop", "done"} =>
        /\ \A s \in 0 .. Len(instancingBuffer) - 1 :
               IF s \in OpenSlots
               THEN \A k \in InstancedDrawPositions : s \notin SlotsOf(k)
               ELSE Cardinality({k \in InstancedDrawPositions : s \in SlotsOf(k)}) = 1
        /\ instancingGroup.count > 0 =>
               /\ instancingGroup.geometry = current.geometry
               /\ instancingGroup.start + instancingGroup.count = Len(instancingBuffer)
               /\ \A s \in OpenSlots :
                      batches[instanceOwner[s + 1]].geometry = instancingGroup.geometry
        /\ \A k \in InstancedDrawPositions :
               /\ SlotsOf(k) \subseteq 0 .. Len(instancingBuffer) - 1
               /\ \A s \in SlotsOf(k) :
                      batches[instanceOwner[s + 1]].geometry = drawQueue[k].arg

C5_Witness ==
    /\ pc = "loop"
    /\ instancingGroup.count = 1
    /\ \E k \in InstancedDrawPositions :
           /\ drawQueue[k].data.count = 2
           /\ drawQueue[k].arg # instancingGroup.geometry

\* C6: processing the same PipelineBatch twice in a row leaves no dirty flag set on
\* the second processing (IsAnyStateDirty is false).
C6_SecondProcessingClean ==
    ( /\ pc = "loop"
      /\ Len(batches) >= 2
      /\ batches[Len(batches)] = batches[Len(batches) - 1] )
    => ~anyStateDirty

\* A step that processes one batch
IsLoopStep == Len(batches') = Len(batches) + 1

\* A step that flushes the open instancing group
IsFlushStep ==
    /\ instancingGroup.count > 0
    /\ \/ IsLoopStep /\ resetInstancingGroup'
       \/ pc = "loop" /\ pc' = "done"

\* The commands a step appends to the draw queue
NewCommands == SubSeq(drawQueue', Len(drawQueue) + 1, Len(drawQueue'))

\* C7: start is the slot the instancing buffer returned for the batch that began the
\* run and count grows by one per batch accumulated; each flush of an open run emits
\* exactly one DrawIndexedInstanced command, with the range [start, start+count), and
\* leaves count 0 (1 when the flushing batch begins the next run); no other step emits
\* an instanced draw.
C7_FlushEmitsOneInstancedDraw ==
    [][ /\ (IsLoopStep /\ beginInstancingGroup') =>
               /\ instancingGroup'.start = Len(instancingBuffer)
               /\ instancingGroup'.count = 1
               /\ instanceOwner'[instancingGroup'.start + 1] = Len(batches')
        /\ (IsLoopStep /\ ~resetInstancingGroup') =>
               /\ instancingGroup'.start = instancingGroup.start
               /\ instancingGroup'.count = instancingGroup.count + 1
        /\ IsFlushStep =>
               /\ Len(NewCommands) >= 2
               /\ NewCommands[2].op = "DrawIndexedInstanced"
               /\ NewCommands[2].data.start = instancingGroup.start
               /\ NewCommands[2].data.count = instancingGroup.count
               /\ \A k \in DOMAIN NewCommands :
                      NewCommands[k].op = "DrawIndexedInstanced" => k = 2
               /\ instancingGroup'.count =
                      IF IsLoopStep /\ beginInstancingGroup' THEN 1 ELSE 0
        /\ ~IsFlushStep =>
               \A k \in DOMAIN NewCommands : NewCommands[k].op # "DrawIndexedInstanced"
      ]_vars

C7_Witness ==
    \E k \in InstancedDrawPositions :
        drawQueue[k].data.start > 0 /\ drawQueue[k].data.count = 2

\* C8: commands reach the queue in batch order: for input batches i < j covered by
\* different draws, the draw covering i precedes the draw covering j and every state
\* change caused by j; in particular an open run is flushed before the state changes
\* of the batch that breaks it.
C8_BatchOrder ==
    /\ \A p \in DrawPositions :
           \A q \in DOMAIN drawQueue :
               ( /\ queueOwner[q] # 0
                 /\ queueOwner[q] \notin Covers(p)
                 /\ \E i \in Covers(p) : i < queueOwner[q] )
               => p < q
    /\ \A p, q \in DrawPositions :
           (p # q /\ \E i \in Covers(p), j \in Covers(q) : i < j) => p < q

C8_Witness ==
    \E p \in InstancedDrawPositions :
        \E q \in DOMAIN drawQueue :
            /\ drawQueue[p].data.count = 2
            /\ drawQueue[q].op = "SetPipelineState"
            /\ queueOwner[q] = 3
            /\ p < q

\* C9: a batch processed while a run is open and no dirty flag is set continues the
\* run: count grows by exactly one, exactly one instance is added to the instancing
\* buffer, and no command is emitted to the draw queue.
C9_ContinueEmitsNothing ==
    [][ (IsLoopStep /\ instancingGroup.count > 0 /\ ~anyStateDirty') =>
            /\ instancingGroup' = [instancingGroup EXCEPT !.count = @ + 1]
            /\ Len(instancingBuffer') = Len(instancingBuffer) + 1
            /\ SubSeq(instancingBuffer', 1, Len(instancingBuffer)) = instancingBuffer
            /\ instancingBuffer'[Len(instancingBuffer')].worldTransform
                   = batches'[Len(batches')].sourceBatch.worldTransform
            /\ Len(drawQueue') = Len(drawQueue)
      ]_vars

C9_Witness ==
    /\ pc = "loop"
    /\ instancingGroup.count = 3
    /\ ~anyStateDirty

\* C10: a batch that can neither continue nor start an instancing run commits the
\* SP_OBJECT group and then emits exactly one non-instanced draw, DrawIndexed if its
\* geometry has an index buffer and Draw otherwise, with at most the SetBuffers of a
\* changed geometry between the two; the instancing buffer is not touched.
C10_FallbackDirectDraw ==
    [][ (IsLoopStep /\ resetInstancingGroup' /\ ~beginInstancingGroup') =>
            LET new == NewCommands
                n == Len(new)
                batch == batches'[Len(batches')]
            IN /\ n >= 2
               /\ new[n].op = IF GetIndexBuffer(batch.geometry) # NULL
                              THEN "DrawIndexed" ELSE "Draw"
               /\ new[n].arg = batch.geometry
               /\ \A k \in 1 .. n : new[k].op \in DirectDrawOps => k = n
               /\ \E k \in {n - 2, n - 1} \cap (1 .. n) :
                      /\ new[k].op = "CommitShaderParameterGroup"
                      /\ new[k].arg = "SP_OBJECT"
                      /\ new[k].data.worldTransform = object'.worldTransform
                      /\ k = n - 2 => new[n - 1].op = "SetBuffers"
               /\ \A k \in 1 .. n :
                      (new[k].op = "CommitShaderParameterGroup" /\ new[k].arg = "SP_OBJECT")
                          => k >= n - 2
               /\ instancingBuffer' = instancingBuffer
      ]_vars

C10_Witness ==
    /\ \E k \in DOMAIN drawQueue : drawQueue[k].op = "Draw"
    /\ \E k \in DOMAIN drawQueue : drawQueue[k].op = "DrawIndexed"
    /\ instancingBuffer # <<>>

----------------------------------------------------------------------------
(* Claims on the state cache and the dirty flags *)

\* Queue positions of the commands with the given operation
PositionsOf(op) == {q \in DOMAIN drawQueue : drawQueue[q].op = op}

\* Queue positions of the commits of the given constant group
CommitsOf(group) ==
    {q \in PositionsOf("CommitShaderParameterGroup") : drawQueue[q].arg = group}

\* The batches (positions in the batch list) that caused the commands at the positions
OwnersOf(positions) == {queueOwner[q] : q \in positions}

\* Positions in the batch list whose pipeline state is not that of the batch before
PipelineStateChanges ==
    {k \in DOMAIN batches :
        k = 1 \/ batches[k].pipelineState # batches[k - 1].pipelineState}

\* C11: within one pass SetPipelineState is emitted for batch k exactly when k is the
\* first batch or its pipeline state differs from that of batch k-1, once and with
\* the batch's pipeline state, so the number of binds is the number of such positions.
C11_PipelineStateBoundOnChange ==
    /\ OwnersOf(PositionsOf("SetPipelineState")) = PipelineStateChanges
    /\ Cardinality(PositionsOf("SetPipelineState")) = Cardinality(PipelineStateChanges)
    /\ \A q \in PositionsOf("SetPipelineState") :
           drawQueue[q].arg = batches[queueOwner[q]].pipelineState

C11_Witness ==
    /\ Len(batches) = 3
    /\ batches[1].pipelineState = batches[2].pipelineState
    /\ batches[2].material # batches[1].material
    /\ batches[3].pipelineState # batches[2].pipelineState
    /\ Cardinality(PositionsOf("SetPipelineState")) = 2

\* The lightmap texture a batch resolves to
ResolvedLightmapTexture(batch) ==
    IF batch.sourceBatch.lightmapScaleOffset # NULL
    THEN GetLightmapTexture(batch.sourceBatch.lightmapIndex)
    ELSE NULL

\* The ramp, shape and shadow-map textures of a batch's pixel light
PixelLightTextures(batch) ==
    IF batch.lightIndex # M_MAX_UNSIGNED
    THEN <<GetShaderParams(batch.lightIndex).lightRamp,
           GetShaderParams(batch.lightIndex).lightShape,
           GetShaderParams(batch.lightIndex).shadowMap>>
    ELSE <<NULL, NULL, NULL>>

\* Positions in the batch list whose material, resolved lightmap texture or pixel
\* light textures are not those of the batch before (lightmap and light as far as the
\* pass evaluates them)
ResourceChanges ==
    {k \in DOMAIN batches :
        \/ k = 1
        \/ batches[k].material # batches[k - 1].material
        \/ /\ enabled.ambientLighting
           /\ ResolvedLightmapTexture(batches[k]) # ResolvedLightmapTexture(batches[k - 1])
        \/ /\ enabled.pixelLighting
           /\ PixelLightTextures(batches[k]) # PixelLightTextures(batches[k - 1])}

\* C12: shader resources are committed for a batch exactly when, relative to the
\* previous batch, the material, the resolved lightmap texture or the pixel light's
\* ramp/shape/shadow-map texture changed; any other batch causes no resource commit.
C12_ResourcesCommittedOnChange ==
    OwnersOf(PositionsOf("CommitShaderResources")) = ResourceChanges

\* Positions in the batch list whose constant depth bias is not that of the batch before
DepthBiasChanges ==
    {k \in DOMAIN batches :
        \/ k = 1
        \/ ConstantDepthBias(batches[k].pipelineState)
               # ConstantDepthBias(batches[k - 1].pipelineState)}

\* C13: the queue beginning a constant group exactly when it is flagged dirty, the
\* SP_CAMERA group is committed for the first batch of a pass and afterwards for
\* exactly the batches whose pipeline state's constant depth bias differs from the
\* bias cached for the preceding batch, once each, and the view-projection committed
\* uses the new batch's depth bias.
C13_CameraFollowsDepthBias ==
    /\ OwnersOf(CommitsOf("SP_CAMERA")) = DepthBiasChanges
    /\ Cardinality(CommitsOf("SP_CAMERA")) = Cardinality(DepthBiasChanges)
    /\ \A q \in CommitsOf("SP_CAMERA") :
           drawQueue[q].data.viewProj
               = ConstantDepthBias(batches[queueOwner[q]].pipelineState)
    /\ pc \in {"loop", "done"} /\ batches # <<>> =>
           current.constantDepthBias
               = ConstantDepthBias(batches[Len(batches)].pipelineState)

C13_Witness ==
    /\ Len(batches) = 3
    /\ batches[2].pipelineState # batches[1].pipelineState
    /\ DepthBiasChanges = {1, 3}
    /\ \E q \in CommitsOf("SP_CAMERA") :
           queueOwner[q] = 3 /\ drawQueue[q].data.viewProj = 1

\* A batch has been processed and the render call is in or after its loop
BatchProcessed == pc \in {"loop", "done"} /\ batches # <<>>

\* The batch processed last
LastBatch == batches[Len(batches)]

\* C14: after every processed batch current_ holds the batch's pipeline state,
\* material and geometry and the constant depth bias of that pipeline state; the
\* material and geometry dirty flags found by the batch are true exactly when the
\* batch's material, geometry differ from the ones cached before it.
C14_CommonStateMirrorsBatch ==
    BatchProcessed =>
        /\ current.pipelineState = LastBatch.pipelineState
        /\ current.material = LastBatch.material
        /\ current.geometry = LastBatch.geometry
        /\ current.constantDepthBias = ConstantDepthBias(LastBatch.pipelineState)
        /\ checked.material = (cachedBefore.material # LastBatch.material)
        /\ checked.geometry = (cachedBefore.geometry # LastBatch.geometry)

C14_Witness ==
    /\ BatchProcessed
    /\ Len(batches) = 2
    /\ checked.material /\ ~checked.geometry
    /\ cachedBefore.material = batches[1].material
    /\ current.material = "M2"

\* C15: in a pass with pixel lighting, after every processed batch
\* current_.pixelLightIndex_ is the batch's light index, pixelLightEnabled_ is true
\* exactly when that index is not the no-light sentinel, and when enabled the cached
\* parameter bundle and ramp/shape/shadow-map textures are those of lights_[index];
\* the pixel-light constants are found dirty exactly when the batch's light index
\* (sentinel included) differs from the index cached before the batch.
C15_PixelLightMirrorsBatch ==
    (BatchProcessed /\ enabled.pixelLighting) =>
        /\ current.pixelLightIndex = LastBatch.lightIndex
        /\ current.pixelLightEnabled = (LastBatch.lightIndex # M_MAX_UNSIGNED)
        /\ current.pixelLightEnabled =>
               /\ current.pixelLightParams = GetShaderParams(LastBatch.lightIndex)
               /\ current.pixelLightRamp = GetShaderParams(LastBatch.lightIndex).lightRamp
               /\ current.pixelLightShape = GetShaderParams(LastBatch.lightIndex).lightShape
               /\ current.pixelLightShadowMap
                      = GetShaderParams(LastBatch.lightIndex).shadowMap
        /\ checked.pixelLightConstants
               = (cachedBefore.pixelLightIndex # LastBatch.lightIndex)

C15_Witness ==
    /\ BatchProcessed
    /\ enabled.pixelLighting
    /\ Len(batches) = 3
    /\ batches[1].lightIndex = 1
    /\ batches[2].lightIndex = M_MAX_UNSIGNED
    /\ batches[3].lightIndex = 0
    /\ current.pixelLightRamp = "Ramp0"
    /\ checked.pixelLightConstants

\* The vertex light indices of a batch, by slot
VertexLightsOf(batch) == GetGeometryLighting(batch.drawableIndex).vertexLights

C17_LightmapMirrorsBatch ==
    (BatchProcessed /\ enabled.ambientLighting) =>
        /\ current.lightmapScaleOffset = LastBatch.sourceBatch.lightmapScaleOffset
        /\ current.lightmapTexture = ResolvedLightmapTexture(LastBatch)
        /\ checked.lightmapTextures =
               (ResolvedLightmapTexture(LastBatch) # cachedBefore.lightmapTexture)

\* The cached state and dirty flags that belong to each lighting feature
PixelLightFields ==
    {"pixelLightIndex", "pixelLightEnabled", "pixelLightParams", "pixelLightRamp",
     "pixelLightShape", "pixelLightShadowMap"}
PixelLightFlags == {"pixelLightConstants", "pixelLightTextures"}
VertexLightFields == {"vertexLights", "vertexLightsData"}
VertexLightFlags == {"vertexLightConstants"}
LightmapFields == {"lightmapScaleOffset", "lightmapTexture"}
LightmapFlags == {"lightmapConstants", "lightmapTextures"}

\* A step leaves the cached fields and dirty flags of a feature alone, and the batch
\* found none of the flags set
FeatureUntouched(fields, flags) ==
    /\ \A f \in fields : current'[f] = current[f]
    /\ \A f \in flags : dirty'[f] = dirty[f] /\ ~checked'[f]

\* Batch b differs from batch a at most in inputs of features the pass has disabled
\* (and in its world transform)
OnlyDisabledInputsDiffer(a, b) ==
    /\ SameInputs(a, b)
    /\ a.geometryType = b.geometryType
    /\ a.sourceBatch.geometryType = b.sourceBatch.geometryType

\* Operation and argument of each command of a queue
Operations(queue) == [k \in DOMAIN queue |-> <<queue[k].op, queue[k].arg>>]

\* C18: a pass without the PixelLight flag never changes the cached pixel light nor
\* its dirty flags, a pass without VertexLights never changes the cached vertex
\* lights nor their flag, a pass without AmbientLight never changes the cached
\* lightmap nor its flags; so a batch that differs from its predecessor only in inputs
\* of disabled features is processed as the predecessor presented again would be
\* (same reset decision, same commands, same instancing group), and in a pass with no
\* lighting feature it continues an open run without any command.
C18_DisabledFeaturesNotEvaluated ==
    [][ IsLoopStep =>
          /\ ~enabled.pixelLighting => FeatureUntouched(PixelLightFields, PixelLightFlags)
          /\ ~enabled.vertexLighting => FeatureUntouched(VertexLightFields, VertexLightFlags)
          /\ ~enabled.ambientLighting => FeatureUntouched(LightmapFields, LightmapFlags)
          /\ ( /\ call = "RenderBatches"
               /\ batches # <<>>
               /\ OnlyDisabledInputsDiffer(LastBatch, batches'[Len(batches')]) ) =>
                 LET again == ProcessSceneBatch(Compositor, LastBatch)
                 IN /\ resetInstancingGroup' =
                           ResetInstancingGroup(
                               UpdateDirtyState(Compositor, LastBatch, LastBatch.sourceBatch))
                    /\ Operations(drawQueue') = Operations(again.drawQueue)
                    /\ instancingGroup' = again.instancingGroup
                    /\ (~enabled.anyLighting /\ instancingGroup.count > 0) =>
                           /\ ~resetInstancingGroup'
                           /\ drawQueue' = drawQueue
      ]_vars

C18_Witness ==
    /\ pc = "loop"
    /\ ~enabled.anyLighting
    /\ Len(batches) = 3
    /\ batches[1].lightIndex # batches[2].lightIndex
    /\ batches[2].sourceBatch.lightmapScaleOffset
           # batches[3].sourceBatch.lightmapScaleOffset
    /\ instancingGroup.count = 3
    /\ current.pixelLightIndex = M_MAX_UNSIGNED
    /\ current.lightmapScaleOffset = NULL

----------------------------------------------------------------------------
(* Claims on consecutive render calls *)

\* Queue positions of the commands the first batch of the running second call caused
FirstBatchCommands ==
    {q \in DOMAIN drawQueue : q > previousCall[1].commands /\ queueOwner[q] = 1}

\* Some command of the first batch of the second call has the operation and argument
FirstBatchEmits(op, arg) ==
    \E q \in FirstBatchCommands : drawQueue[q].op = op /\ drawQueue[q].arg = arg

\* C19: in the second of two consecutive render calls, whatever the first call ended
\* with, the compositor starts with no open instancing group; its first batch finds
\* the pipeline state, the frame, camera and material constants dirty, binds its
\* pipeline state, commits the SP_FRAME, SP_CAMERA and SP_MATERIAL groups and commits
\* shader resources; and every instanced draw of the second call covers only
\* instances added during the second call.
C19_NoStateSurvivesCall ==
    (previousCall # <<>> /\ pc \in {"loop", "done"}) =>
        /\ batches = <<>> => instancingGroup.count = 0
        /\ Len(batches) = 1 =>
               /\ checked.pipelineState /\ checked.frameConstants
               /\ checked.cameraConstants /\ checked.material
        /\ batches # <<>> =>
               /\ FirstBatchEmits("SetPipelineState", batches[1].pipelineState)
               /\ FirstBatchEmits("CommitShaderParameterGroup", "SP_FRAME")
               /\ FirstBatchEmits("CommitShaderParameterGroup", "SP_CAMERA")
               /\ FirstBatchEmits("CommitShaderParameterGroup", "SP_MATERIAL")
               /\ FirstBatchEmits("CommitShaderResources", "")
        /\ \A q \in InstancedDrawPositions :
               IF q > previousCall[1].commands
               THEN drawQueue[q].data.start >= previousCall[1].instances
               ELSE drawQueue[q].data.start + drawQueue[q].data.count
                        <= previousCall[1].instances
        /\ instancingGroup.count > 0 => instancingGroup.start >= previousCall[1].instances

C19_Witness ==
    /\ previousCall # <<>>
    /\ pc = "loop"
    /\ Len(batches) = 1
    /\ previousCall[1].call = call
    /\ previousCall[1].enabled = enabled
    /\ Len(previousCall[1].batches) = 2
    /\ previousCall[1].batches[2] = batches[1]
    /\ previousCall[1].batches[1] = batches[1]
    /\ instancingGroup.count = 1
    /\ instancingGroup.start = 2
    /\ \E q \in InstancedDrawPositions :
           q = previousCall[1].commands /\ drawQueue[q].data.count = 2

----------------------------------------------------------------------------
(* Claims on compositors sharing the instancing buffer *)

\* Positions of the instanced draws in the queue of compositor t
SharedInstancedDraws(t) ==
    {q \in DOMAIN compositors[t].drawQueue :
        compositors[t].drawQueue[q].op = "DrawIndexedInstanced"}

\* Instance slots [start, start+count) of the instanced draw of compositor t at q
SharedSlotsOf(t, q) ==
    compositors[t].drawQueue[q].data.start ..
        compositors[t].drawQueue[q].data.start + compositors[t].drawQueue[q].data.count - 1

\* Slots of the open instancing group of compositor t
SharedOpenSlots(t) ==
    compositors[t].instancingGroup.start ..
        compositors[t].instancingGroup.start + compositors[t].instancingGroup.count - 1

\* Instance slots that compositor t added
SlotsAddedBy(t) == {s \in 0 .. Len(instancingBuffer) - 1 : slotCompositor[s + 1] = t}

\* Every instanced draw of compositor t covers slots t added and only those, and every
\* slot t added is in its open group or else in exactly one of its instanced draws.
RangesAreOwn(t) ==
    /\ \A q \in SharedInstancedDraws(t) : SharedSlotsOf(t, q) \subseteq SlotsAddedBy(t)
    /\ \A s \in SlotsAddedBy(t) :
           IF compositors[t].instancingGroup.count > 0 /\ s \in SharedOpenSlots(t)
           THEN \A q \in SharedInstancedDraws(t) : s \notin SharedSlotsOf(t, q)
           ELSE Cardinality({q \in SharedInstancedDraws(t) : s \in SharedSlotsOf(t, q)}) = 1

\* Some instanced draw of compositor t covers a slot another compositor added
CoversForeignSlot(t) ==
    \E q \in SharedInstancedDraws(t) :
        \E s \in SharedSlotsOf(t, q) :
            s < Len(instancingBuffer) /\ slotCompositor[s + 1] # t

\* C20: when two compositors share one instancing buffer and run one pass at a time,
\* the range of every instanced draw is exactly the slots added for the batches of
\* its own run; when their batch processing interleaves this can fail (the state of
\* C20_Witness, where a draw covers a slot written by the other compositor and misses
\* one of its own, is reachable).
C20_OnePassAtATimeIsSafe ==
    ~interleaved => \A t \in CompositorIds : RangesAreOwn(t)

C20_Witness ==
    /\ interleaved
    /\ \E t \in CompositorIds :
           /\ compositors[t].pc = "done"
           /\ CoversForeignSlot(t)
           /\ \E s \in SlotsAddedBy(t) :
                  \A q \in SharedInstancedDraws(t) : s \notin SharedSlotsOf(t, q)

----------------------------------------------------------------------------
(* Claims on the camera constants *)

\* The fog end GetFogParameter works from
FogEndOf(cam) == Min(cam.effectiveFogStart, cam.farClip)

DepthModeBesidesSplit(depthMode) ==
    IF camera.orthographic
    THEN depthMode.x = FixedPoint /\ depthMode.y = 0
    ELSE /\ depthMode.x = 0 /\ depthMode.y = 0 /\ depthMode.z = 0
         /\ depthMode.w = Div(FixedPoint, camera.farClip)

\* C22: the depth-mode constant of an orthographic camera has x = 1, y = 0 and a (z, w)
\* split of (0.5, 0.5) on the OpenGL build and (1, 0) on the other build; that of a
\* perspective camera has x = y = z = 0 and w = 1 / farClip.
C22_DepthModeByBackend ==
    cameraParameters.depthMode # <<>> =>
        LET depthMode == cameraParameters.depthMode[1]
        IN  /\ DepthModeBesidesSplit(depthMode)
            /\ camera.orthographic =>
                   <<depthMode.z, depthMode.w>>
                       = IF URHO3D_OPENGL THEN <<FixedPoint \div 2, FixedPoint \div 2>>
                                          ELSE <<FixedPoint, 0>>

\* C22 as stated: the split on the other build is (0, 1).
C22_DepthModeAsStated ==
    cameraParameters.depthMode # <<>> =>
        LET depthMode == cameraParameters.depthMode[1]
        IN  /\ DepthModeBesidesSplit(depthMode)
            /\ camera.orthographic =>
                   <<depthMode.z, depthMode.w>>
                       = IF URHO3D_OPENGL THEN <<FixedPoint \div 2, FixedPoint \div 2>>
                                          ELSE <<0, FixedPoint>>

C22_Witness ==
    /\ cameraParameters.depthMode # <<>>
    /\ camera.orthographic
    /\ ~URHO3D_OPENGL
    /\ cameraParameters.depthMode[1].z = FixedPoint

----------------------------------------------------------------------------
(* Claims on what is bound when a draw is emitted *)

\* The render calls of Spec, as the claims on the contents of the draw queue and of
\* the instancing buffer name them
SpecQueue == Init /\ [][Next]_vars

\* Queue position of the last command of the kind before position k, 0 when none
RECURSIVE LastBefore(_, _)
LastBefore(op, k) ==
    IF k <= 1 THEN 0
    ELSE IF drawQueue[k - 1].op = op THEN k - 1
    ELSE LastBefore(op, k - 1)

\* C23: for every draw in the queue, direct or instanced, the pipeline state bound last
\* before the draw is the pipeline state of every batch the draw covers.
C23_PipelineStateAtDraw ==
    \A k \in DrawPositions :
        LET q == LastBefore("SetPipelineState", k)
        IN  /\ q > 0
            /\ Covers(k) # {}
            /\ \A j \in Covers(k) :
                   j \in DOMAIN batches /\ drawQueue[q].arg = batches[j].pipelineState

\* An instanced draw of two batches emitted when a batch of another pipeline state
\* broke the run
C23_Witness ==
    \E k \in InstancedDrawPositions :
        /\ Cardinality(Covers(k)) = 2
        /\ \E q \in PositionsOf("SetPipelineState") :
               q > k /\ drawQueue[q].arg # drawQueue[LastBefore("SetPipelineState", k)].arg

\* C24: for every draw in the queue the SetBuffers emitted last before it names the
\* geometry drawn, which is the geometry of every batch the draw covers, with that
\* geometry's index buffer; an instanced draw has the instancing buffer bound too, and
\* a direct draw that skipped SetBuffers right after the flush of an instancing run
\* draws the geometry the flush bound.
C24_BuffersAtDraw ==
    \A k \in DrawPositions :
        LET q == LastBefore("SetBuffers", k)
        IN  /\ q > 0
            /\ drawQueue[q].arg = drawQueue[k].arg
            /\ drawQueue[q].data.indexBuffer = GetIndexBuffer(drawQueue[k].arg)
            /\ \A j \in Covers(k) :
                   j \in DOMAIN batches /\ batches[j].geometry = drawQueue[q].arg
            /\ drawQueue[k].op = "DrawIndexedInstanced" =>
                   q = k - 1 /\ drawQueue[q].data.instancing
            /\ drawQueue[k].op = "DrawIndexed" => drawQueue[q].data.indexBuffer # NULL
            /\ drawQueue[k].op = "Draw" => drawQueue[q].data.indexBuffer = NULL

\* A direct draw of the batch that broke an instancing run, emitted without SetBuffers
\* after the flush of the run
C24_Witness ==
    \E k \in DirectDrawPositions :
        LET q == LastBefore("SetBuffers", k)
        IN  /\ q > 0
            /\ drawQueue[q].data.instancing
            /\ q + 1 \in InstancedDrawPositions
            /\ \A r \in q + 2 .. k : queueOwner[r] = queueOwner[k]

----------------------------------------------------------------------------
(* Claims on the instancing buffer *)

\* What AddObjectInstanceData writes after the world transform for a batch
AmbientPayload(batch) ==
    LET sh == GetGeometryLighting(batch.drawableIndex).sphericalHarmonics
    IN  IF ~enabled.ambientLighting THEN <<>>
        ELSE IF settings.ambientMode = "Flat"
        THEN <<[sh |-> sh, space |-> IF settings.gammaCorrection THEN "linear" ELSE "gamma"]>>
        ELSE IF settings.ambientMode = "Directional" THEN <<sh>>
        ELSE <<>>

\* C25: within one pass the slots start .. start+count-1 of every instanced draw are
\* slots of the buffer, allocated one per batch for consecutive batches in input order,
\* all processed before the draw and none of them the batch that broke the run (whose
\* commands follow the draw), and ranges of different draws do not overlap; every slot
\* holds the world transform of the batch it was allocated for, and its ambient
\* payload exactly when ambient lighting is enabled.
C25_InstanceSlotIntegrity ==
    /\ Len(instanceOwner) = Len(instancingBuffer)
    /\ \A s \in DOMAIN instancingBuffer :
           LET j == instanceOwner[s]
           IN  /\ j \in DOMAIN batches
               /\ instancingBuffer[s].worldTransform = batches[j].sourceBatch.worldTransform
               /\ instancingBuffer[s].ambient = AmbientPayload(batches[j])
    /\ \A k \in InstancedDrawPositions :
           LET start == drawQueue[k].data.start
               count == drawQueue[k].data.count
               first == instanceOwner[start + 1]
           IN  /\ count > 0
               /\ start + count <= Len(instancingBuffer)
               /\ \A s \in start .. start + count - 1 :
                      instanceOwner[s + 1] = first + (s - start)
               /\ \A q \in DOMAIN drawQueue :
                      /\ queueOwner[q] \in first .. first + count - 1 => q < k
                      /\ queueOwner[q] >= first + count => q > k
               /\ \A s \in DOMAIN instanceOwner :
                      instanceOwner[s] \in first .. first + count - 1
                          <=> s - 1 \in start .. start + count - 1
               /\ \A k2 \in InstancedDrawPositions :
                      k2 > k => drawQueue[k2].data.start >= start + count

\* In an ambient pass, an instanced draw of two batches of different drawables, emitted
\* when a third batch broke the run, whose two slots differ in transform and ambient
C25_Witness ==
    /\ enabled.ambientLighting
    /\ Len(batches) = 3
    /\ \E k \in InstancedDrawPositions :
           LET start == drawQueue[k].data.start
           IN  /\ drawQueue[k].data.count = 2
               /\ instancingBuffer[start + 1].worldTransform
                      # instancingBuffer[start + 2].worldTransform
               /\ instancingBuffer[start + 1].ambient # instancingBuffer[start + 2].ambient
               /\ \E q \in DOMAIN drawQueue : q > k /\ queueOwner[q] = 3

\* The batches (positions in the batch list) of the direct draws, in queue order
RECURSIVE DirectDrawOwners(_)
DirectDrawOwners(n) ==
    IF n = 0 THEN <<>>
    ELSE IF drawQueue[n].op \in DirectDrawOps
         THEN Append(DirectDrawOwners(n - 1), queueOwner[n])
         ELSE DirectDrawOwners(n - 1)

\* C26: a light volume pass never enables static instancing, and in a pass that does
\* not enable it no instance is added to the instancing buffer, no DrawIndexedInstanced
\* is emitted and the direct draws are one per batch consumed, in input order.
C26_NoInstancingWhenDisabled ==
    /\ call = "RenderLightVolumeBatches" =>
           enabled = EnabledFeatureFlags(MakeFlags(FALSE, FALSE, TRUE, FALSE))
    /\ (pc \in {"loop", "done"} /\ ~enabled.staticInstancing) =>
           /\ instancingBuffer = <<>>
           /\ instancingGroup.count = 0
           /\ InstancedDrawPositions = {}
           /\ DirectDrawOwners(Len(drawQueue)) = [j \in 1 .. Len(batches) |-> j]

\* A light volume pass over three batches, the last two alike, eligible but for the flag
C26_Witness ==
    /\ call = "RenderLightVolumeBatches"
    /\ pc = "done"
    /\ Len(batches) = 3
    /\ batches[2] = batches[3]
    /\ batches[3].geometryType = GEOM_STATIC
    /\ GetIndexBuffer(batches[3].geometry) # NULL
    /\ Cardinality(DirectDrawPositions) = 3

----------------------------------------------------------------------------
(* Claims on FlushDrawCommands *)

\* C27: FlushDrawCommands on a compositor whose group holds no instance emits nothing
\* and changes nothing; on one whose group holds count > 0 instances it emits SetBuffers
\* and one DrawIndexedInstanced over [start, start+count), sets count to 0 and changes
\* nothing else; a second call right after the first changes nothing, in particular
\* after the flush that ends a render call; and no instanced draw in the queue was
\* emitted with a count of 0 (the assert of DrawObjectInstanced held on every path).
C27_FlushIdempotent ==
    /\ pc \in {"loop", "done"} =>
           LET c == Compositor
               flushed == FlushDrawCommands(c)
               added == SubSeq(flushed.drawQueue, Len(c.drawQueue) + 1,
                               Len(flushed.drawQueue))
           IN  /\ c.instancingGroup.count = 0 => flushed = c
               /\ c.instancingGroup.count > 0 =>
                      /\ Len(added) = 2
                      /\ added[1].op = "SetBuffers"
                      /\ added[2].op = "DrawIndexedInstanced"
                      /\ added[2].data = [start |-> c.instancingGroup.start,
                                          count |-> c.instancingGroup.count]
                      /\ SubSeq(flushed.drawQueue, 1, Len(c.drawQueue)) = c.drawQueue
                      /\ flushed.instancingGroup = [c.instancingGroup EXCEPT !.count = 0]
                      /\ [flushed EXCEPT !.drawQueue = c.drawQueue,
                                         !.queueOwner = c.queueOwner,
                                         !.instancingGroup = c.instancingGroup] = c
               /\ FlushDrawCommands(flushed) = flushed
    /\ pc = "done" => instancingGroup.count = 0 /\ FlushDrawCommands(Compositor) = Compositor
    /\ \A k \in InstancedDrawPositions : drawQueue[k].data.count > 0

\* A render call has returned: its last flush drew an open group of two instances
C27_Witness ==
    /\ pc = "done"
    /\ Len(drawQueue) \in InstancedDrawPositions
    /\ drawQueue[Len(drawQueue)].data.count = 2
    /\ instancingGroup.count = 0

----------------------------------------------------------------------------
(* Claims on the render calls *)

\* C28: a render call over an empty batch list (either RenderBatches overload, in any
\* pass, or RenderLightVolumeBatches) emits no command and adds no instance: as long as
\* no batch was consumed, and after the flush that ends the call, the draw queue and
\* the instancing buffer are empty and no instancing group is open.
C28_EmptyListEmitsNothing ==
    batches = <<>> =>
        /\ drawQueue = <<>>
        /\ queueOwner = <<>>
        /\ instancingBuffer = <<>>
        /\ instancingGroup.count = 0

\* A light volume call over an empty list has returned
C28_Witness ==
    /\ pc = "done"
    /\ call = "RenderLightVolumeBatches"
    /\ globalResources = GeometryBufferResources
    /\ batches = <<>>
    /\ drawQueue = <<>>

----------------------------------------------------------------------------
(* Claims on the constant groups of a pass *)

\* C29: with a queue that begins a group exactly when the compositor flags it, SP_FRAME
\* is committed once per pass, while the first batch is processed: from the first
\* batch on the queue holds one SP_FRAME commit, caused by batch 1, the frame flag is
\* clear, and the flag was found set by the first batch only.
C29_FrameConstantsOncePerPass ==
    (~useConstantBuffers /\ pc \in {"loop", "done"}) =>
        IF batches = <<>>
        THEN dirty.frameConstants /\ CommitsOf("SP_FRAME") = {}
        ELSE /\ Cardinality(CommitsOf("SP_FRAME")) = 1
             /\ OwnersOf(CommitsOf("SP_FRAME")) = {1}
             /\ ~dirty.frameConstants
             /\ checked.frameConstants <=> Len(batches) = 1

\* Three batches, the later two committing other groups, and one SP_FRAME commit
C29_Witness ==
    /\ ~useConstantBuffers
    /\ Len(batches) = 3
    /\ 2 \in OwnersOf(CommitsOf("SP_CAMERA"))
    /\ 3 \in OwnersOf(CommitsOf("SP_MATERIAL"))
    /\ Cardinality(CommitsOf("SP_FRAME")) = 1

\* C30: in a pass with an output shadow split the light group is never begun by a
\* queue that begins only the groups flagged (the compositor passes false, also for a
\* batch whose pixel light differs from the cached one), and every SP_LIGHT commit of
\* a queue that begins every group holds the pixel-light constants of the split's
\* light and no vertex lights, one commit per batch that took the reset branch.
C30_ShadowPassLightGroup ==
    (pc \in {"loop", "done"} /\ outputShadowSplit # NoShadowSplit) =>
        /\ ~useConstantBuffers => CommitsOf("SP_LIGHT") = {}
        /\ \A q \in CommitsOf("SP_LIGHT") :
               /\ drawQueue[q].data.pixelLight = <<GetShaderParams(outputShadowSplit[1])>>
               /\ drawQueue[q].data.vertexLights = <<>>
        /\ useConstantBuffers =>
               OwnersOf(CommitsOf("SP_LIGHT")) = OwnersOf(CommitsOf("SP_CAMERA"))

\* A pixel-lit pass of a split of light 0 over a batch of light 1, flagged as a change
\* of the pixel light, whose SP_LIGHT commit holds the constants of light 0
C30_Witness ==
    /\ useConstantBuffers
    /\ outputShadowSplit = <<0>>
    /\ enabled.pixelLighting
    /\ Len(batches) = 2
    /\ batches[2].lightIndex = 1
    /\ checked.pixelLightConstants
    /\ \E q \in CommitsOf("SP_LIGHT") :
           /\ queueOwner[q] = 2
           /\ drawQueue[q].data.pixelLight = <<GetShaderParams(0)>>
           /\ drawQueue[q].data.pixelLight # <<GetShaderParams(batches[2].lightIndex)>>

----------------------------------------------------------------------------
(* Claims on the material group and the resource commit *)

\* Positions in the batch list whose material is not that of the batch before
MaterialChanges ==
    {k \in DOMAIN batches : k = 1 \/ batches[k].material # batches[k - 1].material}

\* Positions in the batch list whose lightmap scale/offset record is not that of the
\* batch before (no record before the first batch)
LightmapRecordChanges ==
    {k \in DOMAIN batches :
        batches[k].sourceBatch.lightmapScaleOffset
            # (IF k = 1 THEN NULL ELSE batches[k - 1].sourceBatch.lightmapScaleOffset)}

\* The SP_MATERIAL commits are those of the given batches, one each, and each holds the
\* shader parameters of its batch's material, and the lightmap offset exactly when
\* ambient lighting is enabled and the batch has a scale/offset record; the last batch
\* found the group flagged exactly when it is one of the given batches.
MaterialGroupFollows(changes) ==
    /\ OwnersOf(CommitsOf("SP_MATERIAL")) = changes
    /\ Cardinality(CommitsOf("SP_MATERIAL")) = Cardinality(changes)
    /\ BatchProcessed =>
           ((checked.material \/ checked.lightmapConstants) <=> Len(batches) \in changes)
    /\ \A q \in CommitsOf("SP_MATERIAL") :
           LET batch == batches[queueOwner[q]]
               record == batch.sourceBatch.lightmapScaleOffset
           IN  /\ drawQueue[q].data.parameters = GetShaderParameters(batch.material)
               /\ drawQueue[q].data.lmOffset
                      = IF enabled.ambientLighting /\ record # NULL THEN <<record>> ELSE <<>>
               /\ queueOwner[q] = Len(batches) =>
                      (drawQueue[q].data.lmOffset # <<>>
                           <=> enabled.ambientLighting /\ current.lightmapScaleOffset # NULL)

\* C31: the material constant group is flagged dirty for a batch, and committed, exactly
\* when the material differs from the previous batch's or, in a pass with ambient
\* lighting enabled, the lightmap scale/offset record does; a commit holds all shader
\* parameters of the current material, plus the lightmap offset if and only if ambient
\* lighting is enabled and the cached scale/offset record is non-null.
C31_MaterialGroupOnChange ==
    MaterialGroupFollows(
        MaterialChanges
            \cup (IF enabled.ambientLighting THEN LightmapRecordChanges ELSE {}))

\* C31 as stated: the record counts in every pass.
C31_MaterialGroupAsStated ==
    MaterialGroupFollows(MaterialChanges \cup LightmapRecordChanges)

\* An ambient pass whose second batch differs from the first in the lightmap record
\* only and is committed with its offset, and whose third batch has no record again
C31_Witness ==
    /\ enabled.ambientLighting
    /\ Len(batches) = 3
    /\ MaterialChanges = {1}
    /\ LightmapRecordChanges = {2, 3}
    /\ \E q \in CommitsOf("SP_MATERIAL") :
           queueOwner[q] = 2 /\ drawQueue[q].data.lmOffset # <<>>
    /\ \E q \in CommitsOf("SP_MATERIAL") :
           queueOwner[q] = 3 /\ drawQueue[q].data.lmOffset = <<>>

\* The textures a resource commit binds to the unit, in order
TexturesOn(resources, unit) ==
    LET onUnit(resource) == resource.unit = unit
        bound == SelectSeq(resources, onUnit)
    IN  [i \in DOMAIN bound |-> bound[i].texture]

\* The lightmap texture cached when the batch commits its resources
CachedLightmapTexture(batch) ==
    IF enabled.ambientLighting THEN ResolvedLightmapTexture(batch) ELSE NULL

\* C32: every resource commit starts with all global pass resources, binds the
\* material's textures of the other units, and binds at most one texture to the
\* emissive unit: the cached lightmap texture when there is one, in place of the
\* material's emissive texture, and otherwise the material's own emissive texture.
C32_EmissiveUnitBoundOnce ==
    \A q \in PositionsOf("CommitShaderResources") :
        LET resources == drawQueue[q].data
            batch == batches[queueOwner[q]]
            materialTextures == GetTextures(batch.material)
            lightmapTexture == CachedLightmapTexture(batch)
        IN  /\ Len(resources) >= Len(globalResources)
            /\ SubSeq(resources, 1, Len(globalResources)) = globalResources
            /\ Len(TexturesOn(resources, "TU_EMISSIVE")) <= 1
            /\ TexturesOn(resources, "TU_EMISSIVE")
                   = IF lightmapTexture # NULL THEN <<lightmapTexture>>
                     ELSE TexturesOn(materialTextures, "TU_EMISSIVE")
            /\ TexturesOn(resources, "TU_DIFFUSE") = TexturesOn(materialTextures, "TU_DIFFUSE")
            /\ queueOwner[q] = Len(batches) => current.lightmapTexture = lightmapTexture

\* An ambient pass that commits, for a lightmapped batch of a material with an emissive
\* texture, the lightmap texture on the emissive unit, after a commit of the material's
\* own emissive texture for a batch without lightmap
C32_Witness ==
    \E q1, q2 \in PositionsOf("CommitShaderResources") :
        /\ q1 < q2
        /\ enabled.ambientLighting
        /\ TexturesOn(drawQueue[q1].data, "TU_EMISSIVE")
               = TexturesOn(GetTextures(batches[queueOwner[q1]].material), "TU_EMISSIVE")
        /\ TexturesOn(drawQueue[q1].data, "TU_EMISSIVE") # <<>>
        /\ TexturesOn(GetTextures(batches[queueOwner[q2]].material), "TU_EMISSIVE") # <<>>
        /\ TexturesOn(drawQueue[q2].data, "TU_EMISSIVE")
               = <<ResolvedLightmapTexture(batches[queueOwner[q2]])>>
        /\ ResolvedLightmapTexture(batches[queueOwner[q2]]) # NULL


----------------------------------------------------------------------------
(* The file streams of gSystemFileIO: one caller opening, writing and closing *)

\* The state the gSystemFileIO functions work on
IO == [disk |-> disk, files |-> files, stream |-> stream]

\* Does the stream hold a File that FileStreamOpen detached and nothing deleted yet
StreamIsOpen == stream.pFile # nullptr /\ files[stream.pFile].deleted = 0

\* What a file stream call leaves alone
FileStepUnchanged ==
    UNCHANGED <<pc, call, settings, enabled, outputShadowSplit, globalResources, batches,
                dirty, current, object, instancingGroup, anyStateDirty,
                resetInstancingGroup, beginInstancingGroup, drawQueue, instancingBuffer,
                queueOwner, instanceOwner, checked, cachedBefore, previousCall, sharedVars,
                cameraVars, useConstantBuffers>>

InitFileStream ==
    /\ Init
    /\ settings = [gammaCorrection |-> FALSE, ambientMode |-> "Flat"]

\* gSystemFileIO.Open, into a stream that holds no open file
OpenStream ==
    /\ ~StreamIsOpen
    /\ Len(files) < MaxFiles
    /\ \E fileName \in FileNames, mode \in FileModes :
        LET r == FileStreamOpen(IO, fileName, mode)
        IN  /\ disk' = r.disk
            /\ files' = r.files
            /\ stream' = r.stream
            /\ fileCall' = [op |-> "FileStreamOpen", fileName |-> fileName, mode |-> mode,
                            byteCount |-> 0, accepted |-> 0, ok |-> r.returned,
                            bytes |-> 0, before |-> IO]
    /\ FileStepUnchanged

\* gSystemFileIO.Write on an open stream; the system accepts all the bytes or fewer
WriteStream ==
    /\ StreamIsOpen
    /\ \E byteCount \in ByteCounts :
        /\ files[stream.pFile].position + byteCount <= MaxFileSize
        /\ \E accepted \in 0..byteCount :
            LET r == FileStreamWrite(IO, byteCount, accepted)
            IN  /\ disk' = r.disk
                /\ files' = r.files
                /\ stream' = r.stream
                /\ fileCall' = [op |-> "FileStreamWrite", fileName |-> "", mode |-> {},
                                byteCount |-> byteCount, accepted |-> accepted,
                                ok |-> FALSE, bytes |-> r.returned, before |-> IO]
    /\ FileStepUnchanged

\* gSystemFileIO.Close, once on a stream: on a cleared one or on an open one
CloseStream ==
    /\ stream.pFile = nullptr \/ StreamIsOpen
    /\ LET r == FileStreamClose(IO)
       IN  /\ disk' = r.disk
           /\ files' = r.files
           /\ stream' = r.stream
           /\ fileCall' = [op |-> "FileStreamClose", fileName |-> "", mode |-> {},
                           byteCount |-> 0, accepted |-> 0, ok |-> r.returned,
                           bytes |-> 0, before |-> IO]
    /\ FileStepUnchanged

NextFileStream ==
    \/ OpenStream
    \/ WriteStream
    \/ CloseStream

SpecFileStream == InitFileStream /\ [][NextFileStream]_vars

\* The File the stream of the last call held when the call was made
FileBefore == fileCall.before.files[fileCall.before.stream.pFile]

\* C33: FileStreamWrite on a stream whose mode has neither the write nor the append bit
\* returns 0 and leaves the contents of every file and the position of every File as
\* they were; on a stream with one of the bits it returns what File::Write reported.
C33_WriteNeedsWritableMode ==
    fileCall.op = "FileStreamWrite" =>
        IF And(fileCall.before.stream.mMode, FM_WRITE \cup FM_APPEND) = {}
        THEN /\ fileCall.bytes = 0
             /\ disk = fileCall.before.disk
             /\ files = fileCall.before.files
        ELSE fileCall.bytes =
                 FileWrite(fileCall.before.disk, FileBefore, fileCall.byteCount,
                           fileCall.accepted).written

\* A write of two bytes on a stream opened FM_READ over a file with contents came back
\* with 0
C33_Witness ==
    /\ fileCall.op = "FileStreamWrite"
    /\ fileCall.before.stream.mMode = FM_READ
    /\ fileCall.byteCount = 2
    /\ fileCall.accepted = 2
    /\ fileCall.bytes = 0
    /\ disk[FileBefore.name].data = <<"d", "d">>
    /\ files[stream.pFile].position = 0


\* C34: FileStreamOpen returns false and leaves the caller's FileStream as it was when
\* the mode has neither the read nor the write bit or File::Open fails; when it returns
\* true the FileStream carries the requested mode, the size of the file and a non-null
\* File, open and not yet deleted, and a FileStreamClose of that stream closes and
\* deletes that File once, no File being closed or deleted twice.
C34_OpenAtomicCloseOnce ==
    /\ fileCall.op = "FileStreamOpen" =>
        /\ UrhoMode(fileCall.mode) = "unknown" => ~fileCall.ok
        /\ (/\ UrhoMode(fileCall.mode) # "unknown"
            /\ ~FileOpen(fileCall.before.disk, fileCall.fileName,
                         UrhoMode(fileCall.mode)).ok) => ~fileCall.ok
        /\ ~fileCall.ok =>
            /\ stream = fileCall.before.stream
            /\ files = fileCall.before.files
        /\ fileCall.ok =>
            /\ stream.mMode = fileCall.mode
            /\ stream.mSize = Len(disk[fileCall.fileName].data)
            /\ stream.pFile # nullptr
            /\ stream.pFile = Len(fileCall.before.files) + 1
            /\ files[stream.pFile].name = fileCall.fileName
            /\ files[stream.pFile].closed = 0
            /\ files[stream.pFile].deleted = 0
    /\ (fileCall.op = "FileStreamClose" /\ fileCall.before.stream.pFile # nullptr) =>
        /\ fileCall.ok
        /\ files[stream.pFile].closed = 1
        /\ files[stream.pFile].deleted = 1
    /\ \A f \in 1..Len(files) :
        /\ files[f].closed = files[f].deleted
        /\ files[f].deleted <= 1

\* A stream was opened on data.bin and closed, its File closed and deleted once, and a
\* later FileStreamOpen of a missing file for reading into the same FileStream returned
\* false and left the stale FileStream as it was
C34_Witness ==
    /\ fileCall.op = "FileStreamOpen"
    /\ ~fileCall.ok
    /\ fileCall.mode = FM_READ
    /\ ~disk[fileCall.fileName].exists
    /\ stream = fileCall.before.stream
    /\ stream # ClearedStream
    /\ stream.mSize = 2
    /\ files[stream.pFile].closed = 1
    /\ files[stream.pFile].deleted = 1

====
